---- MODULE Spec2Model ----
(***************************************************************************)
(* Model of the IBHelm MCP server core: the statement validator, the       *)
(* result shaper (cell truncation, whole-response truncation), and the     *)
(* query gateway / sandbox pre-fetch that route statements to the pool.    *)
(*                                                                         *)
(* Text is modelled as a sequence of one-character strings.  The ellipsis  *)
(* character U+2026 used by truncate_cell is the single element Ellipsis.  *)
(***************************************************************************)
EXTENDS Integers, Sequences, FiniteSets, TLC

VARIABLES
    \* --- statement validator harness (SpecValidate) ---
    vq,         \* the query text handed to validate_query
    vres,       \* the (ok, message) pair validate_query returned
    vpc,        \* "build" while the text is assembled, "done" once validated
    \* --- truncate_cell harness (SpecCell) ---
    cval,       \* the value handed to truncate_cell
    cmax,       \* max_chars
    cprev,      \* preview_chars
    cout1,      \* result of truncate_cell(value, ...)
    cout2,      \* result of truncate_cell applied to cout1's value
    cpc,        \* "input", "once", "twice"
    \* --- smart_truncate harness (SpecShape) ---
    srows,      \* the raw rows
    sbudget,    \* max_total_chars
    smaxcell,   \* max_cell_chars
    sforce,     \* force_full
    sfp,        \* the float quotient of an exact integer ratio lands below it
    sout,       \* the rows smart_truncate returned
    smeta,      \* the metadata smart_truncate returned
    spc,        \* "input", "done"
    \* --- query gateway and sandbox (Spec) ---
    gpool,      \* the module global _pool: 0 for None, else the pool's id
    npools,     \* number of pools asyncpg.create_pool has created
    ctxvar,     \* _current_user_email as seen in each request's context
    tpc,        \* where each request's coroutine is suspended
    targs,      \* the arguments of each request's tool call
    tloc,       \* the local variables of each request's coroutine
    tret,       \* the value each tool call returned
    tlog,       \* what each request did with the pool and the database
    connrls,    \* per pooled connection: the app.user_email setting of its session
    sys_stdout, \* sys.stdout: 0 for the stream of the process, t for the buffer of request t
    sigalrm     \* SIGALRM: the handler installed (0 or t) and whether an alarm is pending

vvars == <<vq, vres, vpc>>
cvars == <<cval, cmax, cprev, cout1, cout2, cpc>>
svars == <<srows, sbudget, smaxcell, sforce, sfp, sout, smeta, spc>>
hvars == <<sys_stdout, sigalrm>>
gvars == <<gpool, npools, ctxvar, tpc, targs, tloc, tret, tlog, connrls, hvars>>

(***************************************************************************)
(* Text helpers                                                            *)
(***************************************************************************)
Lower == <<"a","b","c","d","e","f","g","h","i","j","k","l","m",
           "n","o","p","q","r","s","t","u","v","w","x","y","z">>
UpperL == <<"A","B","C","D","E","F","G","H","I","J","K","L","M",
            "N","O","P","Q","R","S","T","U","V","W","X","Y","Z">>

\* str.upper() on one character
UpperChar(c) ==
    IF \E i \in 1..Len(Lower) : Lower[i] = c
    THEN UpperL[CHOOSE i \in 1..Len(Lower) : Lower[i] = c]
    ELSE c

\* str.upper()
Upper(s) == [i \in 1..Len(s) |-> UpperChar(s[i])]

\* the characters str.strip() removes
Whitespace == {" ", "\n", "\t", "\r"}

RECURSIVE LStrip(_)
LStrip(s) ==
    IF s # <<>> /\ Head(s) \in Whitespace THEN LStrip(Tail(s)) ELSE s

RECURSIVE RStrip(_)
RStrip(s) ==
    IF s # <<>> /\ s[Len(s)] \in Whitespace
    THEN RStrip(SubSeq(s, 1, Len(s) - 1)) ELSE s

\* str.strip()
Strip(s) == RStrip(LStrip(s))

\* p occurs in s at position i
MatchAt(s, i, p) ==
    /\ i >= 1
    /\ i + Len(p) - 1 <= Len(s)
    /\ \A k \in 1..Len(p) : s[i + k - 1] = p[k]

\* str.startswith(p)
StartsWith(s, p) == MatchAt(s, 1, p)

\* p in s
Contains(s, p) == \E i \in 1..(Len(s) + 1) : MatchAt(s, i, p)

(***************************************************************************)
(* Statement validator (src/database.py)                                   *)
(***************************************************************************)
KwSELECT   == <<"S","E","L","E","C","T">>
KwWITH     == <<"W","I","T","H">>
KwINSERT   == <<"I","N","S","E","R","T">>
KwUPDATE   == <<"U","P","D","A","T","E">>
KwDELETE   == <<"D","E","L","E","T","E">>
KwDROP     == <<"D","R","O","P">>
KwCREATE   == <<"C","R","E","A","T","E">>
KwALTER    == <<"A","L","T","E","R">>
KwTRUNCATE == <<"T","R","U","N","C","A","T","E">>
KwGRANT    == <<"G","R","A","N","T">>
KwREVOKE   == <<"R","E","V","O","K","E">>
KwEXECUTE  == <<"E","X","E","C","U","T","E">>
KwCOPY     == <<"C","O","P","Y">>

\* the denylist, in the order validate_query walks it
dangerous == <<KwINSERT, KwUPDATE, KwDELETE, KwDROP, KwCREATE, KwALTER,
               KwTRUNCATE, KwGRANT, KwREVOKE, KwEXECUTE, KwCOPY>>

\* position of the first "\n" at or after i, or Len(s)+1
RECURSIVE LineEnd(_, _)
LineEnd(s, i) ==
    IF i > Len(s) \/ s[i] = "\n" THEN i ELSE LineEnd(s, i + 1)

\* re.sub(r'--[^\n]*', '', query)
RECURSIVE SubLineComments(_, _)
SubLineComments(s, i) ==
    IF i > Len(s) THEN <<>>
    ELSE IF MatchAt(s, i, <<"-", "-">>)
         THEN SubLineComments(s, LineEnd(s, i + 2))
         ELSE <<s[i]>> \o SubLineComments(s, i + 1)

\* the closing "*/" positions available to a "/*" that starts at i
BlockEnds(s, i) == {j \in (i + 2)..Len(s) : MatchAt(s, j, <<"*", "/">>)}

Min(S) == CHOOSE x \in S : \A y \in S : x <= y

\* re.sub(r'/\*.*?\*/', '', query, flags=re.DOTALL)
RECURSIVE SubBlockComments(_, _)
SubBlockComments(s, i) ==
    IF i > Len(s) THEN <<>>
    ELSE IF MatchAt(s, i, <<"/", "*">>) /\ BlockEnds(s, i) # {}
         THEN SubBlockComments(s, Min(BlockEnds(s, i)) + 2)
         ELSE <<s[i]>> \o SubBlockComments(s, i + 1)

strip_sql_comments(query) ==
    Strip(SubBlockComments(SubLineComments(query, 1), 1))

\* f" {kw} " in f" {query_upper} " or query_upper.startswith(f"{kw} ")
DangerousHit(query_upper, kw) ==
    \/ Contains(<<" ">> \o query_upper \o <<" ">>, <<" ">> \o kw \o <<" ">>)
    \/ StartsWith(query_upper, kw \o <<" ">>)

\* validate_query without the SELECT/WITH allowlist test
validate_query_noallow(query) ==
    LET query_upper == Strip(Upper(strip_sql_comments(query)))
        hits == {k \in 1..Len(dangerous) : DangerousHit(query_upper, dangerous[k])}
    IN  IF hits # {}
        THEN [ok |-> FALSE, msg |-> dangerous[Min(hits)]]
        ELSE [ok |-> TRUE, msg |-> <<>>]

\* validate_query: msg is the keyword named in the rejection, KwSELECT for
\* the "Only SELECT queries allowed" message, empty when accepted
validate_query(query) ==
    LET query_upper == Strip(Upper(strip_sql_comments(query)))
        hits == {k \in 1..Len(dangerous) : DangerousHit(query_upper, dangerous[k])}
    IN  IF ~(StartsWith(query_upper, KwSELECT) \/ StartsWith(query_upper, KwWITH))
        THEN [ok |-> FALSE, msg |-> KwSELECT]
        ELSE IF hits # {}
             THEN [ok |-> FALSE, msg |-> dangerous[Min(hits)]]
             ELSE [ok |-> TRUE, msg |-> <<>>]

(***************************************************************************)
(* Result shaper (src/database.py, src/config.py)                          *)
(***************************************************************************)
MAX_RESPONSE_CHARS == 8000
MAX_CELL_CHARS == 200
CELL_PREVIEW_CHARS == 80
MIN_ROWS_FOR_PREVIEW == 3

\* the character U+2026
Ellipsis == "ELLIPSIS"

Digits == <<"0","1","2","3","4","5","6","7","8","9">>

RECURSIVE NatToStr(_)
NatToStr(n) ==
    IF n < 10 THEN <<Digits[n + 1]>>
    ELSE NatToStr(n \div 10) \o <<Digits[(n % 10) + 1]>>

\* str(n) for an int
IntToStr(n) == IF n < 0 THEN <<"-">> \o NatToStr(0 - n) ELSE NatToStr(n)

\* Cell values: t is the Python type, s the text of a str (or the str() form
\* of a value of another type, "obj"), n the number of an int or bool.
Null      == [t |-> "null", s |-> <<>>, n |-> 0]
StrCell(s) == [t |-> "str", s |-> s, n |-> 0]
IntCell(n) == [t |-> "int", s |-> <<>>, n |-> n]
BoolCell(b) == [t |-> "bool", s |-> <<>>, n |-> IF b THEN 1 ELSE 0]
ObjCell(s) == [t |-> "obj", s |-> s, n |-> 0]

\* str(value)
PyStr(v) ==
    CASE v.t = "null" -> <<"N","o","n","e">>
      [] v.t = "str"  -> v.s
      [] v.t = "int"  -> IntToStr(v.n)
      [] v.t = "bool" -> IF v.n = 1 THEN <<"T","r","u","e">> ELSE <<"F","a","l","s","e">>
      [] v.t = "obj"  -> v.s

\* s[:k] for k >= 0
SliceHead(s, k) == SubSeq(s, 1, IF k < Len(s) THEN k ELSE Len(s))

\* s[-k:] for k >= 0 (s[-0:] is the whole of s)
SliceTail(s, k) ==
    IF k = 0 \/ k >= Len(s) THEN s ELSE SubSeq(s, Len(s) - k + 1, Len(s))

\* f"{s[:half]}…[{len(s) - 2*half} chars]…{s[-half:]}"
Elide(s, half) ==
    SliceHead(s, half)
    \o <<Ellipsis, "[">> \o IntToStr(Len(s) - 2 * half)
    \o <<" ","c","h","a","r","s","]", Ellipsis>>
    \o SliceTail(s, half)

\* truncate_cell with half taken from max_chars instead of preview_chars
truncate_cell_halfmax(value, max_chars, preview_chars) ==
    IF value.t = "null" THEN [value |-> Null, truncated |-> FALSE]
    ELSE IF Len(PyStr(value)) <= max_chars
         THEN [value |-> value, truncated |-> FALSE]
         ELSE [value |-> StrCell(Elide(PyStr(value), max_chars)), truncated |-> TRUE]

\* truncate_cell that only shortens str values
truncate_cell_stronly(value, max_chars, preview_chars) ==
    IF value.t # "str" THEN [value |-> value, truncated |-> FALSE]
    ELSE IF Len(value.s) <= max_chars
         THEN [value |-> value, truncated |-> FALSE]
         ELSE [value |-> StrCell(Elide(value.s, preview_chars)), truncated |-> TRUE]

truncate_cell(value, max_chars, preview_chars) ==
    IF value.t = "null" THEN [value |-> Null, truncated |-> FALSE]
    ELSE IF Len(PyStr(value)) <= max_chars
         THEN [value |-> value, truncated |-> FALSE]
         ELSE [value |-> StrCell(Elide(PyStr(value), preview_chars)), truncated |-> TRUE]

\* A row is the ordered list of its (column, value) items.
RECURSIVE SumSeq(_)
SumSeq(ns) == IF ns = <<>> THEN 0 ELSE Head(ns) + SumSeq(Tail(ns))

estimate_row_chars(row) ==
    SumSeq([i \in 1..Len(row) |->
                IF row[i].v.t = "null" THEN 1 ELSE Len(PyStr(row[i].v))])

\* the per-row loop body of smart_truncate: every cell through truncate_cell
TruncateRow(row, max_cell_chars) ==
    [i \in 1..Len(row) |->
        [k |-> row[i].k,
         v |-> truncate_cell(row[i].v, max_cell_chars, CELL_PREVIEW_CHARS).value]]

RowWasTruncated(row, max_cell_chars) ==
    \E i \in 1..Len(row) :
        truncate_cell(row[i].v, max_cell_chars, CELL_PREVIEW_CHARS).truncated

\* int(max_total_chars / (total_chars / total_rows)) in float arithmetic: the
\* exact floor, except that when the ratio is an exact integer and the average
\* was rounded, the quotient can land just below it (fp_low)
RECURSIVE OddPart(_)
OddPart(n) == IF n > 0 /\ n % 2 = 0 THEN OddPart(n \div 2) ELSE n

\* total_chars / total_rows is not a binary fraction, so avg_row_chars is rounded
AvgInexact(total_chars, total_rows) == total_chars % OddPart(total_rows) # 0

FloatRows(max_total_chars, total_chars, total_rows, fp_low) ==
    LET exact == (max_total_chars * total_rows) \div total_chars
    IN  IF /\ fp_low
           /\ AvgInexact(total_chars, total_rows)
           /\ (max_total_chars * total_rows) % total_chars = 0
           /\ exact > 0
        THEN exact - 1 ELSE exact

Max2(a, b) == IF a >= b THEN a ELSE b

\* show_each taken as max_rows, not half of it
ShowEach_nohalf(max_total_chars, total_chars, total_rows, fp_low) ==
    LET max_rows == Max2(MIN_ROWS_FOR_PREVIEW * 2,
                         FloatRows(max_total_chars, total_chars, total_rows, fp_low))
    IN  Max2(MIN_ROWS_FOR_PREVIEW, max_rows)

\* the window size show_each
ShowEach(max_total_chars, total_chars, total_rows, fp_low) ==
    LET max_rows == Max2(MIN_ROWS_FOR_PREVIEW * 2,
                         FloatRows(max_total_chars, total_chars, total_rows, fp_low))
    IN  Max2(MIN_ROWS_FOR_PREVIEW, max_rows \div 2)

\* the metadata of a response that shows every row
FullMeta(total_rows, total_chars, cell_truncated) ==
    [total_rows |-> total_rows, total_chars_approx |-> total_chars,
     cells_truncated |-> cell_truncated,
     truncated |-> FALSE, rows_shown |-> total_rows]

smart_truncate(rows, max_total_chars, max_cell_chars, force_full, fp_low) ==
    IF rows = <<>>
    THEN [rows |-> <<>>, meta |-> [truncated |-> FALSE, total_rows |-> 0, total_chars |-> 0]]
    ELSE
    LET total_rows == Len(rows)
        processed_rows == [i \in 1..Len(rows) |-> TruncateRow(rows[i], max_cell_chars)]
        cell_truncated == \E i \in 1..Len(rows) : RowWasTruncated(rows[i], max_cell_chars)
        total_chars == SumSeq([i \in 1..Len(rows) |-> estimate_row_chars(processed_rows[i])])
        all == [rows |-> processed_rows,
                meta |-> FullMeta(total_rows, total_chars, cell_truncated)]
    IN  IF force_full THEN all
        ELSE IF total_chars <= max_total_chars THEN all
        ELSE IF total_rows <= MIN_ROWS_FOR_PREVIEW * 2 THEN all
        ELSE
        LET show_each == ShowEach(max_total_chars, total_chars, total_rows, fp_low)
        IN  IF show_each * 2 >= total_rows THEN all
            ELSE [rows |-> SubSeq(processed_rows, 1, show_each)
                           \o SubSeq(processed_rows, total_rows - show_each + 1, total_rows),
                  meta |-> [total_rows |-> total_rows,
                            total_chars_approx |-> total_chars,
                            cells_truncated |-> cell_truncated,
                            truncated |-> TRUE,
                            rows_shown |-> show_each * 2,
                            rows_omitted |-> total_rows - (show_each * 2),
                            preview |-> <<show_each, show_each, total_rows>>]]


(***************************************************************************)
(* TOON serialization and column statistics (src/database.py)              *)
(***************************************************************************)
\* the characters U+2205, U+21B5 and U+2192
NullGlyph == "NULLGLYPH"
ReturnGlyph == "RETURNGLYPH"
ArrowGlyph == "ARROWGLYPH"

RECURSIVE JoinSeqs(_, _)
JoinSeqs(parts, sep) ==
    IF parts = <<>> THEN <<>>
    ELSE IF Len(parts) = 1 THEN parts[1]
    ELSE parts[1] \o sep \o JoinSeqs(Tail(parts), sep)

\* v.replace(newline, U+21B5).replace(tab, U+2192).replace(CR, '')
EscapeControls(v) ==
    LET NotCR(c) == c # "\r"
    IN  SelectSeq([i \in 1..Len(v) |->
                      CASE v[i] = "\n" -> ReturnGlyph
                        [] v[i] = "\t" -> ArrowGlyph
                        [] OTHER -> v[i]],
                  NotCR)

\* quoting that leaves inner double quotes as they are
DoubleQuotes_single(v) == v

\* v.replace('"', '""')
RECURSIVE DoubleQuotes(_)
DoubleQuotes(v) ==
    IF \A i \in 1..Len(v) : v[i] # "\""
    THEN v
    ELSE LET q == CHOOSE i \in 1..Len(v) :
                    v[i] = "\"" /\ \A k \in 1..(i - 1) : v[k] # "\""
         IN  SubSeq(v, 1, q) \o <<"\"">> \o DoubleQuotes(SubSeq(v, q + 1, Len(v)))

HasChar(v, c) == \E i \in 1..Len(v) : v[i] = c

\* one cell of a TOON line
ToonCell(v) ==
    CASE v.t = "null" -> <<NullGlyph>>
      [] v.t = "str"  ->
            LET e == EscapeControls(v.s)
            IN  IF HasChar(e, ",") \/ HasChar(e, "\"")
                THEN <<"\"">> \o DoubleQuotes(e) \o <<"\"">>
                ELSE e
      [] v.t = "bool" -> IF v.n = 1 THEN <<"T">> ELSE <<"F">>
      [] OTHER -> PyStr(v)

\* row.get(f)
RowGet(row, f) ==
    IF \E i \in 1..Len(row) : row[i].k = f
    THEN row[CHOOSE i \in 1..Len(row) : row[i].k = f].v
    ELSE Null

\* list(row.keys()); a column name is one symbol
RowKeys(row) == [i \in 1..Len(row) |-> row[i].k]

to_toon(rows) ==
    IF rows = <<>>
    THEN <<"r","o","w","s","[","0","]","{","}",":"," ","(","e","m","p","t","y",")">>
    ELSE
    LET fields == RowKeys(rows[1])
        header == <<"r","o","w","s","[">> \o IntToStr(Len(rows)) \o <<"]","{">>
                  \o JoinSeqs([i \in 1..Len(fields) |-> <<fields[i]>>], <<",">>)
                  \o <<"}",":">>
        line(row) == <<" "," ">>
                     \o JoinSeqs([i \in 1..Len(fields) |-> ToonCell(RowGet(row, fields[i]))],
                                 <<",">>)
    IN  JoinSeqs(<<header>> \o [i \in 1..Len(rows) |-> line(rows[i])], <<"\n">>)

SetMin(S) == CHOOSE x \in S : \A y \in S : x <= y
SetMax(S) == CHOOSE x \in S : \A y \in S : x >= y

\* the empty mapping
EmptyMap == [x \in {} |-> 0]

\* statistics of one column; sample_values is list(set(strings))[:5], whose
\* order is the set's
ColStats(rows, col) ==
    LET vals == {i \in 1..Len(rows) : RowGet(rows[i], col).t # "null"}
        numeric == {RowGet(rows[i], col).n :
                        i \in {j \in vals : RowGet(rows[j], col).t \in {"int", "bool"}}}
        strings == {RowGet(rows[i], col).s :
                        i \in {j \in vals : RowGet(rows[j], col).t = "str"}}
    IN  [non_null |-> Cardinality(vals), null |-> Len(rows) - Cardinality(vals)]
        @@ (IF numeric # {} THEN [min |-> SetMin(numeric), max |-> SetMax(numeric)]
            ELSE EmptyMap)
        @@ (IF strings # {} THEN [unique |-> Cardinality(strings)] ELSE EmptyMap)
        @@ (IF strings # {} /\ Cardinality(strings) <= 5
            THEN [sample_values |-> strings] ELSE EmptyMap)

compute_column_stats(rows) ==
    IF rows = <<>> THEN EmptyMap
    ELSE [col \in {rows[1][i].k : i \in 1..Len(rows[1])} |-> ColStats(rows, col)]


(***************************************************************************)
(* Validator harness: query texts are assembled from fragments, then       *)
(* validate_query is applied.                                              *)
(***************************************************************************)
MaxFrags == 4

Frags == { KwSELECT, KwWITH, KwDELETE, <<"d","r","o","p">>,
           <<" ">>, <<"\n">>, <<"(">>, <<"-","-">>, <<"/","*">>, <<"*","/">>,
           <<"x">> }

NoResult == [ok |-> FALSE, msg |-> <<>>]

\* the harnesses a specification does not use stay idle
VIdle == vq = <<>> /\ vres = NoResult /\ vpc = "idle"
CIdle ==
    /\ cval = Null /\ cmax = 0 /\ cprev = 0
    /\ cout1 = [value |-> Null, truncated |-> FALSE]
    /\ cout2 = [value |-> Null, truncated |-> FALSE]
    /\ cpc = "idle"
SIdle ==
    /\ srows = <<>> /\ sbudget = 0 /\ smaxcell = 0
    /\ sforce = FALSE /\ sfp = FALSE
    /\ sout = <<>> /\ smeta = [truncated |-> FALSE]
    /\ spc = "idle"
GIdle ==
    /\ gpool = 0 /\ npools = 0
    /\ ctxvar = <<>> /\ tpc = <<>> /\ targs = <<>>
    /\ tloc = <<>> /\ tret = <<>> /\ tlog = <<>>
    /\ connrls = <<>>
    /\ sys_stdout = 0 /\ sigalrm = <<>>

VInit ==
    /\ vq = <<>>
    /\ vres = NoResult
    /\ vpc = "build"
    /\ CIdle /\ SIdle /\ GIdle

\* the caller extends the query text by one fragment
AppendFrag ==
    /\ vpc = "build"
    /\ Len(vq) < MaxFrags
    /\ \E f \in Frags : vq' = Append(vq, f)
    /\ UNCHANGED <<vres, vpc, cvars, svars, gvars>>

RECURSIVE Flatten(_)
Flatten(fs) == IF fs = <<>> THEN <<>> ELSE Head(fs) \o Flatten(Tail(fs))

\* the text the fragments spell
QueryText == Flatten(vq)

Validate ==
    /\ vpc = "build"
    /\ vres' = validate_query(QueryText)
    /\ vpc' = "done"
    /\ UNCHANGED <<vq, cvars, svars, gvars>>

VNext == AppendFrag \/ Validate

allvars == <<vvars, cvars, svars, gvars>>

SpecValidate == VInit /\ [][VNext]_allvars

(***************************************************************************)
(* Claims about the statement validator                                    *)
(***************************************************************************)
\* the comment-stripped, upper-cased text validate_query classifies
CleanUpper == Strip(Upper(strip_sql_comments(QueryText)))

StartsSelectOrWith(s) == StartsWith(s, KwSELECT) \/ StartsWith(s, KwWITH)

StartsDenylisted(s) == \E k \in 1..Len(dangerous) : StartsWith(s, dangerous[k])

\* C2: validate_query returns ok=false whenever the comment-stripped,
\* upper-cased text starts with a denylisted keyword or does not start with
\* SELECT or WITH.
C2_RejectsNonSelect ==
    vpc = "done" =>
        ((StartsDenylisted(CleanUpper) \/ ~StartsSelectOrWith(CleanUpper))
            => vres.ok = FALSE)

\* a rejected text whose cleaned form starts with a denylisted keyword only
\* after comment stripping or upper-casing changed it
C2_Witness ==
    /\ vpc = "done"
    /\ StartsDenylisted(CleanUpper)
    /\ CleanUpper # QueryText
    /\ vres.ok = FALSE

\* Comment removal as one left-to-right scan of the text: at "--" the rest of
\* the line is a comment, at "/*" everything up to the next "*/" is a comment;
\* a marker inside a span belongs to that span.
RECURSIVE RemoveCommentSpans(_, _)
RemoveCommentSpans(s, i) ==
    IF i > Len(s) THEN <<>>
    ELSE IF MatchAt(s, i, <<"-", "-">>)
         THEN RemoveCommentSpans(s, LineEnd(s, i + 2))
         ELSE IF MatchAt(s, i, <<"/", "*">>) /\ BlockEnds(s, i) # {}
              THEN RemoveCommentSpans(s, Min(BlockEnds(s, i)) + 2)
              ELSE <<s[i]>> \o RemoveCommentSpans(s, i + 1)

\* C3: validate_query(q) gives the same verdict as validate_query(q') where
\* q' is q with every line-comment and block-comment span removed, for every
\* arrangement of the two comment kinds.
C3_CommentInvariance ==
    vpc = "done" =>
        vres.ok = validate_query(RemoveCommentSpans(QueryText, 1)).ok

WordChars == {Lower[i] : i \in 1..Len(Lower)} \cup {UpperL[i] : i \in 1..Len(UpperL)}
             \cup {"0","1","2","3","4","5","6","7","8","9","_"}

\* kw occurs in s at i as a word of its own
StandaloneAt(s, i, kw) ==
    /\ MatchAt(s, i, kw)
    /\ (i = 1 \/ s[i - 1] \notin WordChars)
    /\ (i + Len(kw) > Len(s) \/ s[i + Len(kw)] \notin WordChars)

EmbedsDenylisted(s) ==
    \E k \in 1..Len(dangerous) : \E i \in 1..Len(s) : StandaloneAt(s, i, dangerous[k])

\* C4: validate_query rejects every query that starts with WITH or SELECT and
\* contains a denylisted keyword as a standalone word anywhere in the cleaned
\* text, whatever delimits that word.
C4_RejectsEmbedded ==
    vpc = "done" =>
        ((StartsSelectOrWith(CleanUpper) /\ EmbedsDenylisted(CleanUpper))
            => vres.ok = FALSE)

(***************************************************************************)
(* truncate_cell harness: a value and a pair of limits are chosen, then    *)
(* truncate_cell is applied, and applied again to its own result.          *)
(***************************************************************************)
MaxStrLen == 210

\* a text of n characters whose head and tail differ
Pattern(n) == [i \in 1..n |-> Digits[(i % 10) + 1]]

CellValues ==
    {StrCell(Pattern(n)) : n \in 0..MaxStrLen}
    \cup {ObjCell(Pattern(n)) : n \in {3, MaxStrLen}}
    \cup {Null, IntCell(12345), IntCell(0 - 7), BoolCell(TRUE), BoolCell(FALSE)}

\* (max_chars, preview_chars); the first pair is the configured one
LimitPairs ==
    { <<MAX_CELL_CHARS, CELL_PREVIEW_CHARS>>,
      <<30, 5>>, <<20, 5>>, <<10, 3>>, <<5, 1>>, <<4, 0>>, <<10, 80>> }

CInit ==
    /\ cval \in CellValues
    /\ \E lp \in LimitPairs : cmax = lp[1] /\ cprev = lp[2]
    /\ cout1 = [value |-> Null, truncated |-> FALSE]
    /\ cout2 = [value |-> Null, truncated |-> FALSE]
    /\ cpc = "input"
    /\ VIdle /\ SIdle /\ GIdle

TruncateOnce ==
    /\ cpc = "input"
    /\ cout1' = truncate_cell(cval, cmax, cprev)
    /\ cpc' = "once"
    /\ UNCHANGED <<cval, cmax, cprev, cout2, vvars, svars, gvars>>

TruncateAgain ==
    /\ cpc = "once"
    /\ cout2' = truncate_cell(cout1.value, cmax, cprev)
    /\ cpc' = "twice"
    /\ UNCHANGED <<cval, cmax, cprev, cout1, vvars, svars, gvars>>

CNext == TruncateOnce \/ TruncateAgain

SpecCell == CInit /\ [][CNext]_allvars

\* the length of the elided form of a text of n characters
ElidedLen(n, preview_chars) ==
    2 * preview_chars + 10 + Len(IntToStr(n - 2 * preview_chars))

\* C9 (as stated): truncate_cell is idempotent for every value and every
\* pair of limits: the second application returns the value unchanged with
\* truncated == false.
C9_IdempotentAllLimits ==
    cpc = "twice" => cout2 = [value |-> cout1.value, truncated |-> FALSE]

\* C9 (amended): truncate_cell is idempotent whenever the first application
\* did not truncate, or preview_chars >= 1 and the elided form
\* (2*preview_chars + 10 + digits of the omitted count) fits max_chars, as it
\* does for the configured limits 200/80.
C9_IdempotentWhenFits ==
    (cpc = "twice"
     /\ (cout1.truncated =>
            cprev >= 1 /\ ElidedLen(Len(PyStr(cval)), cprev) <= cmax))
        => cout2 = [value |-> cout1.value, truncated |-> FALSE]

\* a value that was truncated by the first application and left alone by the
\* second
C9_Witness ==
    /\ cpc = "twice"
    /\ cout1.truncated
    /\ cout1.value # cval
    /\ cout2 = [value |-> cout1.value, truncated |-> FALSE]

(***************************************************************************)
(* smart_truncate harness: a row set is chosen as a block of equal rows,   *)
(* a block of other rows, and a second block of the first kind (so that    *)
(* row sizes need not be uniform), with a budget; then smart_truncate      *)
(* is applied.                                                             *)
(***************************************************************************)
MaxBlock == 4

Item(k, v) == [k |-> k, v |-> v]

RowChoices ==
    { <<Item("a", Null)>>,
      <<Item("a", StrCell(Pattern(10)))>>,
      <<Item("a", StrCell(Pattern(7))), Item("b", IntCell(12345))>>,
      <<Item("a", StrCell(Pattern(MAX_CELL_CHARS + 1))), Item("b", BoolCell(TRUE))>>,
      <<Item("a", ObjCell(Pattern(MAX_CELL_CHARS + 30)))>> }

\* max_total_chars: the configured budget and two small ones
Budgets == {MAX_RESPONSE_CHARS, 400, 72}

Repeat(row, n) == [i \in 1..n |-> row]

RowSets ==
    { Repeat(ra, h) \o Repeat(rb, m) \o Repeat(ra, t) :
        <<ra, rb, h, m, t>> \in
            RowChoices \X RowChoices \X (0..MaxBlock) \X (0..MaxBlock) \X (0..MaxBlock) }

SInit ==
    /\ srows \in RowSets
    /\ sbudget \in Budgets
    /\ smaxcell = MAX_CELL_CHARS
    /\ sforce \in BOOLEAN
    /\ sfp \in BOOLEAN
    /\ sout = <<>>
    /\ smeta = [truncated |-> FALSE]
    /\ spc = "input"
    /\ VIdle /\ CIdle /\ GIdle

SmartTruncate ==
    /\ spc = "input"
    /\ LET r == smart_truncate(srows, sbudget, smaxcell, sforce, sfp)
       IN  sout' = r.rows /\ smeta' = r.meta
    /\ spc' = "done"
    /\ UNCHANGED <<srows, sbudget, smaxcell, sforce, sfp, vvars, cvars, gvars>>

SNext == SmartTruncate

SpecShape == SInit /\ [][SNext]_allvars

\* sum of estimate_row_chars over a list of rows
TotalEstimate(rows) == SumSeq([i \in 1..Len(rows) |-> estimate_row_chars(rows[i])])

\* the input rows with cell truncation applied and nothing else
CellTruncated(rows) == [i \in 1..Len(rows) |-> TruncateRow(rows[i], smaxcell)]

\* C5: for force_full=false the estimated size of the returned rows is at
\* most max_total_chars unless at most 2*MIN_ROWS_FOR_PREVIEW rows are
\* returned, for every distribution of row sizes.
C5_BudgetBound ==
    (spc = "done" /\ ~sforce /\ Len(sout) > 2 * MIN_ROWS_FOR_PREVIEW)
        => TotalEstimate(sout) <= sbudget

\* C6: with the configured cell limits, forced or not, no returned cell has a
\* string form longer than MAX_CELL_CHARS and no more rows are returned than
\* were given.
C6_CellCapAndRowCount ==
    (spc = "done" /\ smaxcell = MAX_CELL_CHARS) =>
        /\ Len(sout) <= Len(srows)
        /\ \A i \in 1..Len(sout) : \A j \in 1..Len(sout[i]) :
               Len(PyStr(sout[i][j].v)) <= MAX_CELL_CHARS

\* a response in which a cell longer than the cap was shortened
C6_Witness ==
    /\ spc = "done" /\ smaxcell = MAX_CELL_CHARS
    /\ \E i \in 1..Len(srows) : \E j \in 1..Len(srows[i]) :
           Len(PyStr(srows[i][j].v)) > MAX_CELL_CHARS
    /\ sout # <<>>
    /\ smeta.cells_truncated

\* the case C7 is about
OverBudget ==
    /\ ~sforce
    /\ Len(srows) > 2 * MIN_ROWS_FOR_PREVIEW
    /\ TotalEstimate(CellTruncated(srows)) > sbudget

\* C7: over budget with more than 2*MIN_ROWS_FOR_PREVIEW rows, the result is
\* truncated=true and exactly the first K rows followed by the last K rows,
\* K the computed window size with 2K < total_rows, rows_shown == 2K and
\* rows_shown + rows_omitted == total_rows.
C7_HeadTailWindow ==
    (spc = "done" /\ OverBudget) =>
        LET n == Len(srows)
            T == TotalEstimate(CellTruncated(srows))
            K == ShowEach(sbudget, T, n, sfp)
        IN  /\ smeta.truncated = TRUE
            /\ 2 * K < n
            /\ sout = SubSeq(CellTruncated(srows), 1, K)
                      \o SubSeq(CellTruncated(srows), n - K + 1, n)
            /\ smeta.rows_shown = 2 * K
            /\ smeta.rows_shown + smeta.rows_omitted = n

\* an over-budget row set of unequal rows that was cut to a window wider than
\* the minimum
C7_Witness ==
    /\ spc = "done" /\ OverBudget
    /\ smeta.truncated = TRUE
    /\ Len(sout) > 2 * MIN_ROWS_FOR_PREVIEW
    /\ Len(sout) < Len(srows)
    /\ \E i \in 1..Len(srows) : srows[i] # srows[1]

\* C8: when the estimated size after cell truncation is within the budget,
\* all rows are returned in order with only cell truncation applied,
\* meta.truncated == false and meta.rows_shown == total_rows.
C8_WithinBudgetUnchanged ==
    (spc = "done" /\ TotalEstimate(CellTruncated(srows)) <= sbudget) =>
        /\ sout = CellTruncated(srows)
        /\ smeta.truncated = FALSE
        /\ "rows_shown" \in DOMAIN smeta
        /\ smeta.rows_shown = Len(srows)

\* the input row a returned row was made from: the rows returned are a head
\* and a tail of the input
SourceRow(i) ==
    IF 2 * i <= Len(sout) THEN srows[i] ELSE srows[Len(srows) - Len(sout) + i]

\* a returned cell is not the cell that was given
AnyCellShortened == \E i \in 1..Len(sout) : sout[i] # SourceRow(i)

\* C26: whenever fewer rows are returned than were given, meta.truncated is
\* true and rows_shown and rows_omitted are present; whenever a cell was
\* shortened, meta.cells_truncated is true; and meta.rows_shown is always the
\* number of rows returned.
C26_TruncationReported ==
    spc = "done" =>
        /\ Len(sout) < Len(srows) =>
                /\ smeta.truncated
                /\ {"rows_shown", "rows_omitted"} \subseteq DOMAIN smeta
        /\ AnyCellShortened =>
                /\ "cells_truncated" \in DOMAIN smeta
                /\ smeta.cells_truncated
        /\ "rows_shown" \in DOMAIN smeta
        /\ smeta.rows_shown = Len(sout)

(***************************************************************************)
(* Query gateway and sandbox (src/database.py, src/tools/query.py,         *)
(* src/tools/python_exec.py).  Each request is a coroutine; an action is   *)
(* the code a coroutine runs from one suspension point (await) to the      *)
(* next.                                                                   *)
(***************************************************************************)
NumTasks == 2
NumConns == 2
MAX_QUERIES == 10
LIMIT_CAP == 1000

Tasks == 1..NumTasks

\* Python's None where a str is expected
None == "None"

Truthy(x) == x # None /\ x # ""

qSelect   == <<"S","E","L","E","C","T"," ","x">>
qDelete   == <<"D","E","L","E","T","E"," ","x">>
qSemi     == <<"S","E","L","E","C","T"," ","x"," ",";">>
qLimit    == <<"s","e","l","e","c","t"," ","x"," ","l","i","m","i","t"," ","1">>
qSelectWs == <<"S","E","L","E","C","T"," "," ","x">>
qLimits   == <<"S","E","L","E","C","T"," ","l","i","m","i","t","s">>

KwLIMIT == <<"L","I","M","I","T">>

\* s.rstrip(';')
RECURSIVE RStripSemicolons(_)
RStripSemicolons(s) ==
    IF s # <<>> /\ s[Len(s)] = ";"
    THEN RStripSemicolons(SubSeq(s, 1, Len(s) - 1)) ELSE s

\* the text execute_query sends: limit is 0 for None
ApplyLimit(query, limit, full_output) ==
    IF ~full_output /\ limit # 0 /\ ~Contains(Upper(query), KwLIMIT)
    THEN RStripSemicolons(RStrip(query))
         \o <<" ">> \o KwLIMIT \o <<" ">>
         \o IntToStr(IF limit < LIMIT_CAP THEN limit ELSE LIMIT_CAP)
    ELSE query

\* ' '.join(sql.split())
RECURSIVE SplitWords(_, _)
SplitWords(s, cur) ==
    IF s = <<>> THEN (IF cur = <<>> THEN <<>> ELSE <<cur>>)
    ELSE IF Head(s) \in Whitespace
         THEN (IF cur = <<>> THEN <<>> ELSE <<cur>>) \o SplitWords(Tail(s), <<>>)
         ELSE SplitWords(Tail(s), Append(cur, Head(s)))

Normalize(sql) == JoinSeqs(SplitWords(sql, <<>>), <<" ">>)

\* HELPFUL_ERRORS: the keys enhance_error looks for, in order
HELPFUL_ERRORS == <<"relation", "column", "permission denied", "syntax error",
                    "canceling statement">>

\* An error message: kind says which code path built it, text is the SQL
\* keyword or exception type it names, key the HELPFUL_ERRORS key a driver
\* message contains ("other" for none), hint whether a hint was appended.
ErrMsg(kind, text, key, hint) == [kind |-> kind, text |-> text, key |-> key, hint |-> hint]

\* enhance_error(str(e)) for a driver exception whose message contains key
enhance_error(key) ==
    ErrMsg("driver", <<>>, key,
           \E i \in 1..Len(HELPFUL_ERRORS) : HELPFUL_ERRORS[i] = key)

\* the messages a failing call carries: a connection failure, or the
\* statement timeout of a running query
ConnErrors == {"other"}
FetchErrors == {"canceling statement"}

\* values as the driver returns them: dates and binary values besides the
\* JSON-safe ones
DateCell(iso) == [t |-> "date", s |-> iso, n |-> 0]
BytesCell(n)  == [t |-> "bytes", s |-> <<>>, n |-> n]

\* the per-value conversion of execute_query and execute_query_async
ConvertValue(value) ==
    CASE value.t = "date"  -> StrCell(value.s)
      [] value.t = "bytes" -> StrCell(<<"<">> \o IntToStr(value.n)
                                      \o <<" ","b","y","t","e","s",">">>)
      [] OTHER -> value

ConvertRows(results) ==
    [i \in 1..Len(results) |->
        [j \in 1..Len(results[i]) |->
            [k |-> results[i][j].k, v |-> ConvertValue(results[i][j].v)]]]

\* result sets the database can answer with
DbResults ==
    { <<>>,
      << <<Item("a", IntCell(1)), Item("b", StrCell(<<"x", ",", "y">>))>>,
         <<Item("a", DateCell(<<"2","0","2","4">>)), Item("b", BytesCell(16))>>,
         <<Item("a", Null), Item("b", StrCell(Pattern(MAX_CELL_CHARS + 1)))>> >> }

\* an envelope that carries an error next to metadata
ErrorEnvelope_mixed(error) == [error |-> error, meta |-> [truncated |-> FALSE]]

\* the error envelope
ErrorEnvelope(error) == [error |-> error]

\* lines 335-363 of execute_query: conversion, shaping, envelope
SuccessEnvelope(results, format, include_stats, full_output) ==
    LET rows == ConvertRows(results)
        st == smart_truncate(rows, MAX_RESPONSE_CHARS, MAX_CELL_CHARS, full_output, FALSE)
        meta == (IF include_stats /\ st.rows # <<>>
                 THEN [columns |-> compute_column_stats(st.rows)] ELSE EmptyMap)
                @@ st.meta @@ [query_time_ms |-> 0]
    IN  IF format = "toon"
        THEN [data |-> to_toon(st.rows), meta |-> meta]
        ELSE [rows |-> st.rows, meta |-> meta]

\* arguments of query_database: limit 0 is None, email is the identity in the
\* request's access token
QueryArgs ==
    { [tool |-> "query_database", query |-> a[1], format |-> a[2],
       include_stats |-> a[3], limit |-> a[4], full_output |-> a[5], email |-> a[6]] :
        a \in { <<qSelect, "toon", FALSE, 0, FALSE, "alice">>,
                <<qDelete, "toon", FALSE, 0, FALSE, "bob">>,
                <<qSemi, "json", TRUE, 5, FALSE, None>>,
                <<qLimit, "json", FALSE, 2000, TRUE, "bob">>,
                <<qSelect, "toon", TRUE, 2000, FALSE, None>>,
                <<qLimits, "json", FALSE, 5, FALSE, None>> } }

\* search_emails / search_tasks: the statement they build, handed to
\* execute_query with its defaults; they read no identity
SearchArgs ==
    { [tool |-> "search_emails", query |-> qLimit, format |-> "toon",
       include_stats |-> FALSE, limit |-> 0, full_output |-> FALSE, email |-> None] }

\* A snippet: the literals the four db_query patterns find in it, in the order
\* queries_in_code lists them; whether it prints a line; what running it does:
\*   value         its last line is an expression
\*   none          its last line is an assignment
\*   raise         it raises
\*   import        it has an import statement
\*   import_caught it has an import statement inside try: ... except: pass
\*   print_last    the line it prints is its last line: print("hi")
\*   loop          it loops forever
\*   loop_catch    it loops forever, the loop body inside try: ... except: pass
\*   slow_last     one execution of it fits the time budget, two do not, and
\*                 its last line is the expression that takes the time
\*   db_query      its last line is db_query(call)
Snippet(queries, prints, run, call) ==
    [queries |-> queries, prints |-> prints, run |-> run, call |-> call]

Snippets ==
    { Snippet(<<qSelect>>, TRUE, "db_query", qSelectWs),
      Snippet(<<qSelect, qDelete>>, FALSE, "value", <<>>),
      Snippet(<<qSelectWs, qSelect, qLimit>>, FALSE, "none", <<>>),
      Snippet(<<>>, TRUE, "raise", <<>>),
      Snippet(<<>>, TRUE, "import", <<>>),
      Snippet(<<>>, FALSE, "import_caught", <<>>),
      Snippet(<<>>, TRUE, "print_last", <<>>),
      Snippet(<<>>, TRUE, "loop", <<>>),
      Snippet(<<>>, FALSE, "loop_catch", <<>>),
      Snippet(<<>>, TRUE, "slow_last", <<>>),
      Snippet(<<>>, FALSE, "db_query", qLimit),
      Snippet(<<>>, TRUE, "value", <<>>) }

\* arguments of run_python; email is the identity in the request's access
\* token, which run_python has no parameter to receive
PythonArgs ==
    { [tool |-> "run_python", code |-> c, timeout_seconds |-> ts, email |-> "alice"] :
        c \in Snippets, ts \in {10} }

NoArgs == [tool |-> "none"]
NoRet == [none |-> TRUE]

\* the locals of a request's coroutine
InitLoc ==
    [query |-> <<>>, effective_email |-> None, pool |-> 0, conn |-> 0,
     pending |-> NoRet, qi |-> 1, query_count |-> 0, query_cache |-> EmptyMap,
     results |-> <<>>, old_stdout |-> 0, old_handler |-> 0]

\* the sessions of the pooled connections: (pool, connection)
Sessions == (1..NumTasks) \X (1..NumConns)

\* app.user_email in a session: the value in effect for the next statement,
\* and the value last passed to set_config
NoSetting == [rls |-> None, last |-> None]

\* set_config('app.user_email', value, is_local) that outlives its statement
SetConfig_session(session, value, is_local, in_transaction) ==
    [rls |-> value, last |-> value]

\* set_config('app.user_email', value, is_local): a local setting lasts to the
\* end of the transaction, which outside a transaction block is the statement
\* itself
SetConfig(session, value, is_local, in_transaction) ==
    [rls |-> IF is_local /\ ~in_transaction THEN session.rls ELSE value,
     last |-> value]

GInit ==
    /\ connrls = [x \in Sessions |-> NoSetting]
    /\ sys_stdout = 0
    /\ sigalrm = [handler |-> 0, pending |-> FALSE]
    /\ gpool = 0
    /\ npools = 0
    /\ ctxvar = [t \in Tasks |-> None]
    /\ tpc = [t \in Tasks |-> "idle"]
    /\ targs = [t \in Tasks |-> NoArgs]
    /\ tloc = [t \in Tasks |-> InitLoc]
    /\ tret = [t \in Tasks |-> NoRet]
    /\ tlog = [t \in Tasks |-> <<>>]
    /\ VIdle /\ CIdle /\ SIdle

NotG == <<vvars, cvars, svars>>

\* a pool connection is held by a request
Held(pool, c) == \E u \in Tasks : tloc[u].pool = pool /\ tloc[u].conn = c

FreeConns(pool) == {c \in 1..NumConns : ~Held(pool, c)}

\* a driver call: the function that made it, the call, the statement text of a
\* fetch, the argument of an execute
LogEntry(by, op, sql, arg) == [by |-> by, op |-> op, sql |-> sql, arg |-> arg]

Upd(t, f, v) == [f EXCEPT ![t] = v]

\* get_pool up to its first suspension: the pool if there is one
PoolOrCreate(pcCreate, pcNext) == IF gpool = 0 THEN pcCreate ELSE pcNext

(***************************************************************************)
(* query_database / execute_query                                          *)
(***************************************************************************)
\* query_database that hands the query to the pool without validating it
QueryCall_unchecked(t) ==
    /\ tpc[t] = "idle"
    /\ \E a \in QueryArgs \cup SearchArgs :
        /\ targs' = Upd(t, targs, a)
        /\ ctxvar' = IF Truthy(a.email) THEN Upd(t, ctxvar, a.email) ELSE ctxvar
        /\ tloc' = Upd(t, tloc,
                [tloc[t] EXCEPT !.query = ApplyLimit(a.query, a.limit, a.full_output),
                                !.effective_email = ctxvar'[t],
                                !.pool = gpool])
        /\ tpc' = Upd(t, tpc, PoolOrCreate("q_create_pool", "q_acquire"))
        /\ UNCHANGED tret
    /\ UNCHANGED <<gpool, npools, tlog, connrls, hvars, NotG>>

\* query_database: identity from the token into the context variable, then
\* execute_query up to its first suspension (validation, LIMIT rewrite,
\* effective identity, get_pool)
QueryCall(t) ==
    /\ tpc[t] = "idle"
    /\ \E a \in QueryArgs \cup SearchArgs :
        /\ targs' = Upd(t, targs, a)
        /\ ctxvar' = IF Truthy(a.email) THEN Upd(t, ctxvar, a.email) ELSE ctxvar
        /\ LET v == validate_query(a.query)
           IN  IF ~v.ok
               THEN /\ tret' = Upd(t, tret,
                                   ErrorEnvelope(ErrMsg("validation", v.msg, "", FALSE)))
                    /\ tpc' = Upd(t, tpc, "done")
                    /\ UNCHANGED tloc
               ELSE /\ tloc' = Upd(t, tloc,
                        [tloc[t] EXCEPT
                            !.query = ApplyLimit(a.query, a.limit, a.full_output),
                            !.effective_email = ctxvar'[t],
                            !.pool = gpool])
                    /\ tpc' = Upd(t, tpc, PoolOrCreate("q_create_pool", "q_acquire"))
                    /\ UNCHANGED tret
    /\ UNCHANGED <<gpool, npools, tlog, connrls, hvars, NotG>>

\* asyncpg.create_pool returns or raises; get_pool assigns _pool and returns it
QueryCreatePool(t) ==
    /\ tpc[t] = "q_create_pool"
    /\ \/ /\ gpool' = npools + 1
          /\ npools' = npools + 1
          /\ tloc' = Upd(t, tloc, [tloc[t] EXCEPT !.pool = npools + 1])
          /\ tpc' = Upd(t, tpc, "q_acquire")
          /\ UNCHANGED tret
       \/ \E e \in ConnErrors :
          /\ tret' = Upd(t, tret, ErrorEnvelope(enhance_error(e)))
          /\ tpc' = Upd(t, tpc, "done")
          /\ tloc' = Upd(t, tloc, InitLoc)
          /\ UNCHANGED <<gpool, npools>>
    /\ UNCHANGED <<ctxvar, targs, tlog, connrls, hvars, NotG>>

\* pool.acquire() hands out a free connection, or raises
QueryAcquire(t) ==
    /\ tpc[t] = "q_acquire"
    /\ \/ /\ FreeConns(tloc[t].pool) # {}
          /\ LET c == SetMin(FreeConns(tloc[t].pool))
             IN  /\ tloc' = Upd(t, tloc, [tloc[t] EXCEPT !.conn = c])
                 /\ tlog' = Upd(t, tlog, Append(tlog[t], LogEntry("execute_query", "acquire", <<>>, "")))
          /\ tpc' = Upd(t, tpc, "q_set_timeout")
          /\ UNCHANGED tret
       \/ \E e \in ConnErrors :
          /\ tret' = Upd(t, tret, ErrorEnvelope(enhance_error(e)))
          /\ tpc' = Upd(t, tpc, "done")
          /\ tloc' = Upd(t, tloc, InitLoc)
          /\ UNCHANGED tlog
    /\ UNCHANGED <<gpool, npools, ctxvar, targs, connrls, hvars, NotG>>

\* an exception inside "async with" that ends the call with the connection
\* still checked out
QueryFail_leak(t, e) ==
    /\ tloc' = Upd(t, tloc, [tloc[t] EXCEPT !.pending = ErrorEnvelope(enhance_error(e))])
    /\ tpc' = Upd(t, tpc, "done")

\* an exception inside "async with": the connection is released on the way out
QueryFail(t, e) ==
    /\ tloc' = Upd(t, tloc, [tloc[t] EXCEPT !.pending = ErrorEnvelope(enhance_error(e))])
    /\ tpc' = Upd(t, tpc, "q_release")

\* conn.execute("SET statement_timeout = '30s'"), then _set_rls_context up to
\* its await (it has none when the identity is empty)
QuerySetTimeout(t) ==
    /\ tpc[t] = "q_set_timeout"
    /\ tlog' = Upd(t, tlog, Append(tlog[t],
                    LogEntry("execute_query", "execute", <<>>, "SET statement_timeout = '30s'")))
    /\ \/ /\ tpc' = Upd(t, tpc, IF Truthy(tloc[t].effective_email)
                                THEN "q_set_rls" ELSE "q_fetch")
          /\ UNCHANGED tloc
       \/ \E e \in ConnErrors : QueryFail(t, e)
    /\ UNCHANGED <<gpool, npools, ctxvar, targs, tret, connrls, hvars, NotG>>

\* conn.execute("SELECT set_config('app.user_email', $1, true)", user_email)
QuerySetRls(t) ==
    /\ tpc[t] = "q_set_rls"
    /\ tlog' = Upd(t, tlog, Append(tlog[t],
                    LogEntry("execute_query", "execute", <<>>, tloc[t].effective_email)))
    /\ \/ /\ tpc' = Upd(t, tpc, "q_fetch")
          /\ connrls' = [connrls EXCEPT ![<<tloc[t].pool, tloc[t].conn>>] =
                            SetConfig(@, tloc[t].effective_email, TRUE, FALSE)]
          /\ UNCHANGED tloc
       \/ /\ \E e \in ConnErrors : QueryFail(t, e)
          /\ UNCHANGED connrls
    /\ UNCHANGED <<gpool, npools, ctxvar, targs, tret, hvars, NotG>>

\* conn.fetch(query), then conversion, shaping and the envelope
QueryFetch(t) ==
    /\ tpc[t] = "q_fetch"
    /\ tlog' = Upd(t, tlog, Append(tlog[t],
                    LogEntry("execute_query", "fetch", tloc[t].query, "")))
    /\ \/ \E results \in DbResults :
          /\ tloc' = Upd(t, tloc, [tloc[t] EXCEPT !.pending =
                        SuccessEnvelope(results, targs[t].format,
                                        targs[t].include_stats, targs[t].full_output)])
          /\ tpc' = Upd(t, tpc, "q_release")
       \/ \E e \in FetchErrors : QueryFail(t, e)
    /\ UNCHANGED <<gpool, npools, ctxvar, targs, tret, connrls, hvars, NotG>>

\* leaving "async with pool.acquire()": the connection goes back, the call returns
QueryRelease(t) ==
    /\ tpc[t] = "q_release"
    /\ tlog' = Upd(t, tlog, Append(tlog[t], LogEntry("execute_query", "release", <<>>, "")))
    /\ tret' = Upd(t, tret, tloc[t].pending)
    /\ tloc' = Upd(t, tloc, InitLoc)
    /\ tpc' = Upd(t, tpc, "done")
    /\ UNCHANGED <<gpool, npools, ctxvar, targs, connrls, hvars, NotG>>

(***************************************************************************)
(* run_python                                                              *)
(***************************************************************************)
\* min(max(1, timeout_seconds), 30)
ClampTimeout(ts) == IF ts < 1 THEN 1 ELSE IF ts > 30 THEN 30 ELSE ts

\* what one execution of the snippet prints
Captured(code) == IF code.prints THEN <<"h", "i", "\n">> ELSE <<>>

\* "x or None" / "x if x else None" for a captured text
OrNone(text) == IF text = <<>> THEN Null ELSE StrCell(text)

\* lines 201-209: the result made JSON-safe
SerializeResult(result) ==
    CASE result.t = "date" -> StrCell(result.s)
      [] result.t = "obj"  -> StrCell(PyStr(result))
      [] OTHER -> result

\* what a snippet does that never ends by itself: it loops, or it loops with
\* the loop body inside its own handler (try/except or try/finally)
Looping == {"loop", "loop_catch"}

\* what a snippet does that is still going on when its alarm arrives
Overrunning == Looping \cup {"slow_last"}

\* the names a snippet finds in __builtins__
SAFE_BUILTINS_importing ==
    {"__import__", "print", "len", "range", "sum", "True", "False", "None"}

SAFE_BUILTINS ==
    {"abs", "all", "any", "bin", "bool", "chr", "dict", "divmod", "enumerate",
     "filter", "float", "format", "frozenset", "hash", "hex", "int", "isinstance",
     "issubclass", "iter", "len", "list", "map", "max", "min", "next", "oct",
     "ord", "pow", "print", "range", "repr", "reversed", "round", "set", "slice",
     "sorted", "str", "sum", "tuple", "type", "zip", "True", "False", "None"}

\* an import statement calls __builtins__['__import__']; without it the
\* statement raises ImportError and binds nothing
ImportBinds == "__import__" \in SAFE_BUILTINS

\* lines 179-189: what eval(last_line) prints when the last line is evaluated
\* again after exec() ran the whole snippet
EvalOutput(code) == IF code.run = "print_last" THEN Captured(code) ELSE <<>>

\* lines 186-189 and 198-211: PythonTimeoutError raised inside eval(last_line)
\* is caught by the bare except around it; run_python returns normally
SwallowedInEval(code) == [result |-> Null, output |-> OrNone(Captured(code))]

\* a sandbox whose db_query answers a text that is not in the cache as if it
\* had been fetched
RunSnippet_fetching(code, query_cache) ==
    LET out == Captured(code)
    IN  IF code.run = "db_query"
        THEN [result |-> SerializeResult(IntCell(
                            IF Normalize(code.call) \in DOMAIN query_cache
                            THEN Len(query_cache[Normalize(code.call)]) ELSE 0)),
              output |-> OrNone(out)]
        ELSE [result |-> Null, output |-> OrNone(out)]

\* lines 167-218: the snippet runs to its end without suspending; for a looping
\* snippet, the return after PythonTimeoutError was raised out of it
RunSnippet(code, query_cache) ==
    LET out == Captured(code)
        execError(type) == [error |-> ErrMsg("execution", type, "", FALSE),
                            output |-> OrNone(out)]
    IN  CASE code.run = "value"  -> [result |-> SerializeResult(IntCell(3)),
                                    output |-> OrNone(out)]
          [] code.run = "none"   -> [result |-> Null, output |-> OrNone(out)]
          [] code.run = "raise"  -> execError(<<"R","u","n","t","i","m","e","E","r","r","o","r">>)
          [] code.run = "import" ->
                IF ImportBinds
                THEN [result |-> Null, output |-> OrNone(out)]
                ELSE [error |-> ErrMsg("import", <<>>, "", FALSE), output |-> OrNone(out)]
          [] code.run = "import_caught" -> [result |-> Null, output |-> OrNone(out)]
          [] code.run = "print_last" ->
                [result |-> Null, output |-> OrNone(out \o EvalOutput(code))]
          [] code.run \in Overrunning -> execError(<<"P","y","t","h","o","n","T","i","m","e","o","u","t",
                                               "E","r","r","o","r">>)
          [] code.run = "db_query" ->
                IF Normalize(code.call) \in DOMAIN query_cache
                THEN [result |-> SerializeResult(
                                    IntCell(Len(query_cache[Normalize(code.call)]))),
                      output |-> OrNone(out)]
                ELSE execError(<<"V","a","l","u","e","E","r","r","o","r">>)

\* "Query failed: ... - str(e)"
PrefetchError(text, key) == ErrorEnvelope(ErrMsg("prefetch", text, key, FALSE))

\* the pre-fetch loop without the cap on the number of queries
RECURSIVE Prefetch_nocap(_, _)
Prefetch_nocap(code, loc) ==
    IF loc.qi > Len(code.queries)
    THEN IF code.run \in Overrunning
         THEN [pc |-> "p_exec", loc |-> loc, ret |-> NoRet]
         ELSE [pc |-> "done", loc |-> loc, ret |-> RunSnippet(code, loc.query_cache)]
    ELSE
    LET normalized == Normalize(code.queries[loc.qi])
    IN  IF normalized \in DOMAIN loc.query_cache
        THEN Prefetch_nocap(code, [loc EXCEPT !.qi = loc.qi + 1])
        ELSE IF ~validate_query(normalized).ok
        THEN [pc |-> "done", loc |-> [loc EXCEPT !.query = normalized],
              ret |-> PrefetchError(validate_query(normalized).msg, "")]
        ELSE [pc |-> "p_acquire", loc |-> [loc EXCEPT !.query = normalized], ret |-> NoRet]

\* The pre-fetch loop from the literal at loc.qi up to the next suspension:
\* cached literals are skipped; the next one is counted and validated and its
\* connection requested; after the last one the snippet runs and the call
\* returns, unless it loops: then it is left running under its alarm.
RECURSIVE Prefetch(_, _)
Prefetch(code, loc) ==
    IF loc.qi > Len(code.queries)
    THEN IF code.run \in Overrunning
         THEN [pc |-> "p_exec", loc |-> loc, ret |-> NoRet]
         ELSE [pc |-> "done", loc |-> loc, ret |-> RunSnippet(code, loc.query_cache)]
    ELSE
    LET normalized == Normalize(code.queries[loc.qi])
    IN  IF normalized \in DOMAIN loc.query_cache
        THEN Prefetch(code, [loc EXCEPT !.qi = loc.qi + 1])
        ELSE
        LET counted == [loc EXCEPT !.query_count = loc.query_count + 1,
                                   !.query = normalized]
        IN  IF counted.query_count > MAX_QUERIES
            THEN [pc |-> "done", loc |-> counted,
                  ret |-> PrefetchError(<<"T","o","o"," ","m","a","n","y">>, "")]
            ELSE IF ~validate_query(normalized).ok
            THEN [pc |-> "done", loc |-> counted,
                  ret |-> PrefetchError(validate_query(normalized).msg, "")]
            ELSE [pc |-> "p_acquire", loc |-> counted, ret |-> NoRet]

\* lines 168-169 and 31-32: sys.stdout and the SIGALRM handler are saved and
\* replaced, the alarm is armed
EnterSnippet(t, loc) ==
    [loc |-> [loc EXCEPT !.old_stdout = sys_stdout, !.old_handler = sigalrm.handler],
     sys_stdout |-> t,
     sigalrm |-> [handler |-> t, pending |-> TRUE]]

\* a way out of the snippet that skips the finally clauses
LeaveSnippet_nofinally(t, loc) ==
    [sys_stdout |-> t, sigalrm |-> [handler |-> t, pending |-> FALSE]]

\* lines 35-37 and 217-218, the finally clauses on every way out of the
\* snippet: the alarm is cancelled, the saved handler and stream are put back
LeaveSnippet(t, loc) ==
    [sys_stdout |-> loc.old_stdout,
     sigalrm |-> [handler |-> loc.old_handler, pending |-> FALSE]]

\* the call returned from the lines that run the snippet (191-211)
Executed(ret) == "output" \in DOMAIN ret

\* the coroutine moves to where Prefetch left it; its locals end with it.  A
\* snippet that ends by itself is entered and left within the step.
Resume(t, step) ==
    /\ tpc' = Upd(t, tpc, step.pc)
    /\ tret' = Upd(t, tret, step.ret)
    /\ LET in == EnterSnippet(t, step.loc)
           out == LeaveSnippet(t, in.loc)
       IN  CASE step.pc = "p_exec" ->
                    /\ tloc' = Upd(t, tloc, in.loc)
                    /\ sys_stdout' = in.sys_stdout
                    /\ sigalrm' = in.sigalrm
             [] step.pc = "done" /\ Executed(step.ret) ->
                    /\ tloc' = Upd(t, tloc, InitLoc)
                    /\ sys_stdout' = out.sys_stdout
                    /\ sigalrm' = out.sigalrm
             [] OTHER ->
                    /\ tloc' = Upd(t, tloc, IF step.pc = "done" THEN InitLoc ELSE step.loc)
                    /\ UNCHANGED hvars

\* run_python, called with one of the given arguments, up to its first
\* suspension
PythonCallWith(t, arguments) ==
    /\ tpc[t] = "idle"
    /\ \E a \in arguments :
        /\ targs' = Upd(t, targs, [a EXCEPT !.timeout_seconds = ClampTimeout(@)])
        /\ IF gpool = 0
           THEN /\ tpc' = Upd(t, tpc, "p_create_pool")
                /\ UNCHANGED <<tloc, tret, hvars>>
           ELSE Resume(t, Prefetch(a.code, [tloc[t] EXCEPT !.pool = gpool]))
    /\ UNCHANGED <<gpool, npools, ctxvar, tlog, connrls, NotG>>

PythonCall(t) == PythonCallWith(t, PythonArgs)

\* asyncpg.create_pool returns or raises; run_python has no handler around
\* get_pool, so the exception leaves the tool function
PythonCreatePool(t) ==
    /\ tpc[t] = "p_create_pool"
    /\ \/ /\ gpool' = npools + 1
          /\ npools' = npools + 1
          /\ Resume(t, Prefetch(targs[t].code, [tloc[t] EXCEPT !.pool = npools + 1]))
       \/ /\ tpc' = Upd(t, tpc, "raised")
          /\ tloc' = Upd(t, tloc, InitLoc)
          /\ UNCHANGED <<gpool, npools, tret, hvars>>
    /\ UNCHANGED <<ctxvar, targs, tlog, connrls, NotG>>

\* pool.acquire() in execute_query_async
PythonAcquire(t) ==
    /\ tpc[t] = "p_acquire"
    /\ \/ /\ FreeConns(tloc[t].pool) # {}
          /\ LET c == SetMin(FreeConns(tloc[t].pool))
             IN  /\ tloc' = Upd(t, tloc, [tloc[t] EXCEPT !.conn = c])
                 /\ tlog' = Upd(t, tlog, Append(tlog[t], LogEntry("execute_query_async", "acquire", <<>>, "")))
          /\ tpc' = Upd(t, tpc, "p_set_timeout")
          /\ UNCHANGED tret
       \/ \E e \in ConnErrors :
          /\ tret' = Upd(t, tret, PrefetchError(tloc[t].query, e))
          /\ tpc' = Upd(t, tpc, "done")
          /\ tloc' = Upd(t, tloc, InitLoc)
          /\ UNCHANGED tlog
    /\ UNCHANGED <<gpool, npools, ctxvar, targs, connrls, hvars, NotG>>

PythonFail(t, e) ==
    /\ tloc' = Upd(t, tloc, [tloc[t] EXCEPT !.pending = PrefetchError(tloc[t].query, e)])
    /\ tpc' = Upd(t, tpc, "p_release")

\* conn.execute("SET statement_timeout = '10s'")
PythonSetTimeout(t) ==
    /\ tpc[t] = "p_set_timeout"
    /\ tlog' = Upd(t, tlog, Append(tlog[t],
                    LogEntry("execute_query_async", "execute", <<>>, "SET statement_timeout = '10s'")))
    /\ \/ /\ tpc' = Upd(t, tpc, "p_fetch")
          /\ UNCHANGED tloc
       \/ \E e \in ConnErrors : PythonFail(t, e)
    /\ UNCHANGED <<gpool, npools, ctxvar, targs, tret, connrls, hvars, NotG>>

\* conn.fetch(sql) and the conversion of its rows
PythonFetch(t) ==
    /\ tpc[t] = "p_fetch"
    /\ tlog' = Upd(t, tlog, Append(tlog[t],
                    LogEntry("execute_query_async", "fetch", tloc[t].query, "")))
    /\ \/ \E results \in DbResults :
          /\ tloc' = Upd(t, tloc, [tloc[t] EXCEPT !.results = ConvertRows(results)])
          /\ tpc' = Upd(t, tpc, "p_release")
       \/ \E e \in FetchErrors : PythonFail(t, e)
    /\ UNCHANGED <<gpool, npools, ctxvar, targs, tret, connrls, hvars, NotG>>

\* leaving "async with": the connection goes back; on success the rows are
\* cached and the loop goes on, on failure run_python returns the error
PythonRelease(t) ==
    /\ tpc[t] = "p_release"
    /\ tlog' = Upd(t, tlog, Append(tlog[t], LogEntry("execute_query_async", "release", <<>>, "")))
    /\ IF tloc[t].pending # NoRet
       THEN /\ tret' = Upd(t, tret, tloc[t].pending)
            /\ tloc' = Upd(t, tloc, InitLoc)
            /\ tpc' = Upd(t, tpc, "done")
            /\ UNCHANGED hvars
       ELSE Resume(t, Prefetch(targs[t].code,
                [tloc[t] EXCEPT !.conn = 0,
                                !.results = <<>>,
                                !.query_cache = (tloc[t].query :> tloc[t].results) @@ @,
                                !.qi = @ + 1]))
    /\ UNCHANGED <<gpool, npools, ctxvar, targs, connrls, NotG>>

\* SIGALRM arrives while the snippet runs and the handler raises
\* PythonTimeoutError at the instruction being executed.  Inside exec(), outside
\* a handler of the snippet, it ends exec() and run_python returns the error;
\* inside eval(last_line) the bare except of line 188 catches it; inside a
\* handler of the snippet the snippet catches it and loops on, with no alarm
\* left (signal.alarm is one-shot).
PythonAlarm(t) ==
    /\ tpc[t] = "p_exec"
    /\ sigalrm = [handler |-> t, pending |-> TRUE]
    /\ \/ /\ tret' = Upd(t, tret, RunSnippet(targs[t].code, tloc[t].query_cache))
          /\ tpc' = Upd(t, tpc, "done")
          /\ tloc' = Upd(t, tloc, InitLoc)
          /\ sys_stdout' = LeaveSnippet(t, tloc[t]).sys_stdout
          /\ sigalrm' = LeaveSnippet(t, tloc[t]).sigalrm
       \/ /\ targs[t].code.run = "slow_last"
          /\ tret' = Upd(t, tret, SwallowedInEval(targs[t].code))
          /\ tpc' = Upd(t, tpc, "done")
          /\ tloc' = Upd(t, tloc, InitLoc)
          /\ sys_stdout' = LeaveSnippet(t, tloc[t]).sys_stdout
          /\ sigalrm' = LeaveSnippet(t, tloc[t]).sigalrm
       \/ /\ targs[t].code.run = "loop_catch"
          /\ tpc' = Upd(t, tpc, "p_spin")
          /\ sigalrm' = [sigalrm EXCEPT !.pending = FALSE]
          /\ UNCHANGED <<tloc, tret, sys_stdout>>
    /\ UNCHANGED <<gpool, npools, ctxvar, targs, tlog, connrls, NotG>>

\* an event loop that runs other coroutines while a snippet executes
EventLoopFree_always(t) == TRUE

\* exec() does not suspend: while a snippet runs, the event loop runs no other
\* coroutine
EventLoopFree(t) == \A u \in Tasks \ {t} : tpc[u] \notin {"p_exec", "p_spin"}

(***************************************************************************)
(* get_project_dashboard                                                   *)
(***************************************************************************)
\* arguments of get_project_dashboard: given says that project_id or
\* project_name was passed, email is the identity in the request's token
DashArgs ==
    { [tool |-> "get_project_dashboard", given |-> TRUE, email |-> "bob"],
      [tool |-> "get_project_dashboard", given |-> FALSE, email |-> None] }

\* the statements of the dashboard, each named by the variable that receives
\* its rows
DashStatements ==
    << <<"proj">>, <<"stats">>, <<"tasks">>, <<"emails">>, <<"files">>,
       <<"contacts">>, <<"activity">> >>

\* the dictionary the dashboard returns
DashResult ==
    [project |-> <<"proj">>, recent_activity |-> <<"activity">>,
     recent_tasks |-> <<"tasks">>, recent_emails |-> <<"emails">>,
     recent_files |-> <<"files">>, key_contacts |-> <<"contacts">>]

\* an exception on its way out of the tool function
Raising == [raise |-> TRUE]

\* the tool function up to its first suspension
DashCall(t) ==
    /\ tpc[t] = "idle"
    /\ \E a \in DashArgs :
        /\ targs' = Upd(t, targs, a)
        /\ ctxvar' = IF Truthy(a.email) THEN Upd(t, ctxvar, a.email) ELSE ctxvar
        /\ IF ~a.given
           THEN /\ tret' = Upd(t, tret, ErrorEnvelope(ErrMsg("dashboard", <<>>, "", FALSE)))
                /\ tpc' = Upd(t, tpc, "done")
                /\ UNCHANGED tloc
           ELSE /\ tloc' = Upd(t, tloc, [tloc[t] EXCEPT !.effective_email = a.email,
                                                        !.pool = gpool])
                /\ tpc' = Upd(t, tpc, PoolOrCreate("d_create_pool", "d_acquire"))
                /\ UNCHANGED tret
    /\ UNCHANGED <<gpool, npools, tlog, connrls, hvars, NotG>>

\* asyncpg.create_pool returns or raises; nothing in the tool catches it
DashCreatePool(t) ==
    /\ tpc[t] = "d_create_pool"
    /\ \/ /\ gpool' = npools + 1
          /\ npools' = npools + 1
          /\ tloc' = Upd(t, tloc, [tloc[t] EXCEPT !.pool = npools + 1])
          /\ tpc' = Upd(t, tpc, "d_acquire")
       \/ /\ tpc' = Upd(t, tpc, "raised")
          /\ tloc' = Upd(t, tloc, InitLoc)
          /\ UNCHANGED <<gpool, npools>>
    /\ UNCHANGED <<ctxvar, targs, tret, tlog, connrls, hvars, NotG>>

\* pool.acquire(), then _set_rls_context up to its await
DashAcquire(t) ==
    /\ tpc[t] = "d_acquire"
    /\ \/ /\ FreeConns(tloc[t].pool) # {}
          /\ tloc' = Upd(t, tloc, [tloc[t] EXCEPT !.conn = SetMin(FreeConns(tloc[t].pool))])
          /\ tlog' = Upd(t, tlog, Append(tlog[t],
                        LogEntry("get_project_dashboard", "acquire", <<>>, "")))
          /\ tpc' = Upd(t, tpc, IF Truthy(tloc[t].effective_email)
                                THEN "d_set_rls" ELSE "d_fetch")
       \/ /\ tpc' = Upd(t, tpc, "raised")
          /\ tloc' = Upd(t, tloc, InitLoc)
          /\ UNCHANGED tlog
    /\ UNCHANGED <<gpool, npools, ctxvar, targs, tret, connrls, hvars, NotG>>

\* conn.execute("SELECT set_config('app.user_email', $1, true)", user_email)
DashSetRls(t) ==
    /\ tpc[t] = "d_set_rls"
    /\ tlog' = Upd(t, tlog, Append(tlog[t],
                    LogEntry("get_project_dashboard", "execute", <<>>,
                             tloc[t].effective_email)))
    /\ \/ /\ tpc' = Upd(t, tpc, "d_fetch")
          /\ connrls' = [connrls EXCEPT ![<<tloc[t].pool, tloc[t].conn>>] =
                            SetConfig(@, tloc[t].effective_email, TRUE, FALSE)]
          /\ UNCHANGED tloc
       \/ /\ tloc' = Upd(t, tloc, [tloc[t] EXCEPT !.pending = Raising])
          /\ tpc' = Upd(t, tpc, "d_release")
          /\ UNCHANGED connrls
    /\ UNCHANGED <<gpool, npools, ctxvar, targs, tret, hvars, NotG>>

\* the next conn.fetchrow / conn.fetch of the dashboard, sent as written
DashFetch(t) ==
    /\ tpc[t] = "d_fetch"
    /\ tlog' = Upd(t, tlog, Append(tlog[t],
                    LogEntry("get_project_dashboard", "fetch",
                             DashStatements[tloc[t].qi], "")))
    /\ \/ /\ tloc[t].qi < Len(DashStatements)
          /\ tloc' = Upd(t, tloc, [tloc[t] EXCEPT !.qi = @ + 1])
          /\ UNCHANGED tpc
       \/ /\ tloc[t].qi = Len(DashStatements)
          /\ tloc' = Upd(t, tloc, [tloc[t] EXCEPT !.pending = DashResult])
          /\ tpc' = Upd(t, tpc, "d_release")
       \/ /\ tloc[t].qi = 1
          /\ tloc' = Upd(t, tloc, [tloc[t] EXCEPT !.pending =
                        ErrorEnvelope(ErrMsg("dashboard", <<"proj">>, "", FALSE))])
          /\ tpc' = Upd(t, tpc, "d_release")
       \/ /\ tloc' = Upd(t, tloc, [tloc[t] EXCEPT !.pending = Raising])
          /\ tpc' = Upd(t, tpc, "d_release")
    /\ UNCHANGED <<gpool, npools, ctxvar, targs, tret, connrls, hvars, NotG>>

\* leaving "async with": the connection goes back; the tool returns, or the
\* exception goes on to its caller
DashRelease(t) ==
    /\ tpc[t] = "d_release"
    /\ tlog' = Upd(t, tlog, Append(tlog[t],
                    LogEntry("get_project_dashboard", "release", <<>>, "")))
    /\ IF tloc[t].pending = Raising
       THEN tpc' = Upd(t, tpc, "raised") /\ UNCHANGED tret
       ELSE tpc' = Upd(t, tpc, "done") /\ tret' = Upd(t, tret, tloc[t].pending)
    /\ tloc' = Upd(t, tloc, InitLoc)
    /\ UNCHANGED <<gpool, npools, ctxvar, targs, connrls, hvars, NotG>>

\* the steps of a get_project_dashboard call
DashStep(t) ==
    \/ DashCall(t)
    \/ DashCreatePool(t)
    \/ DashAcquire(t)
    \/ DashSetRls(t)
    \/ DashFetch(t)
    \/ DashRelease(t)

\* the steps of a query_database call
QueryStep(t) ==
    \/ QueryCall(t)
    \/ QueryCreatePool(t)
    \/ QueryAcquire(t)
    \/ QuerySetTimeout(t)
    \/ QuerySetRls(t)
    \/ QueryFetch(t)
    \/ QueryRelease(t)

\* the steps of a run_python call
PythonStep(t) ==
    \/ PythonCall(t)
    \/ PythonCreatePool(t)
    \/ PythonAcquire(t)
    \/ PythonSetTimeout(t)
    \/ PythonFetch(t)
    \/ PythonRelease(t)
    \/ PythonAlarm(t)

GNext ==
    \E t \in Tasks :
        /\ EventLoopFree(t)
        /\ (QueryStep(t) \/ PythonStep(t) \/ DashStep(t))

Spec == GInit /\ [][GNext]_allvars

(***************************************************************************)
(* One run_python request alone in the process, with snippets that hold    *)
(* as many literals as the cap allows, and one more.                       *)
(***************************************************************************)
\* "SELECT i", and the same text with two blanks
NumberedQuery(i) == KwSELECT \o <<" ">> \o NatToStr(i)
NumberedQueryWs(i) == KwSELECT \o <<" ", " ">> \o NatToStr(i)

\* n distinct literals; the second and the last-but-one are written twice,
\* with different whitespace
ManyLiterals(n) ==
    <<NumberedQuery(1), NumberedQuery(2), NumberedQueryWs(2)>>
        \o [i \in 1..(n - 3) |-> NumberedQuery(i + 2)]
        \o <<NumberedQueryWs(n - 1), NumberedQuery(n)>>

SandboxArgs ==
    PythonArgs \cup
    { [tool |-> "run_python", code |-> c, timeout_seconds |-> 10, email |-> "alice"] :
        c \in { Snippet(ManyLiterals(MAX_QUERIES), FALSE, "db_query", NumberedQueryWs(1)),
                Snippet(ManyLiterals(MAX_QUERIES + 1), TRUE, "value", <<>>) } }

SandboxNext ==
    \/ PythonCallWith(1, SandboxArgs)
    \/ PythonCreatePool(1)
    \/ PythonAcquire(1)
    \/ PythonSetTimeout(1)
    \/ PythonFetch(1)
    \/ PythonRelease(1)
    \/ PythonAlarm(1)

SpecSandbox == GInit /\ [][SandboxNext]_allvars

\* signal.alarm(seconds) was called before exec(): the kernel delivers SIGALRM
\* to the process while the snippet runs, so a pending alarm does arrive.
SpecLive ==
    Spec /\ \A t \in Tasks : WF_allvars(EventLoopFree(t) /\ PythonAlarm(t))

(***************************************************************************)
(* Claims about the gateway                                                *)
(***************************************************************************)
IsQuery(t) == targs[t].tool = "query_database"
IsPython(t) == targs[t].tool = "run_python"

\* the pre-fetch of task t is requesting or holding a connection
Prefetching(t) == tpc[t] \in {"p_acquire", "p_set_timeout", "p_fetch", "p_release"}

\* text of the statements task t has had the driver fetch
Fetched(t) == {tlog[t][i].sql : i \in {j \in 1..Len(tlog[t]) : tlog[t][j].op = "fetch"}}

\* the literals of a snippet that validate_query rejects
RejectedLiterals(code) ==
    {i \in 1..Len(code.queries) : ~validate_query(Normalize(code.queries[i])).ok}

\* per snippet: the positions of its rejected literals, and the texts the
\* pre-fetch may send (its other literals, normalised)
Rejected == [c \in Snippets |-> RejectedLiterals(c)]

Sendable ==
    [c \in Snippets |->
        {Normalize(c.queries[i]) : i \in (1..Len(c.queries)) \ Rejected[c]}]

\* the query texts among the arguments that validate_query rejects
RejectedQueries == {a.query : a \in {b \in QueryArgs : ~validate_query(b.query).ok}}

\* the number of driver calls of one kind in the log of task t
CountOps(t, op) == Cardinality({i \in 1..Len(tlog[t]) : tlog[t][i].op = op})

\* C1: a query that validate_query rejects is never sent to the database.  In
\* execute_query the call has then touched no connection at all and has
\* returned the error envelope with the validator's message.  In the sandbox
\* pre-fetch a connection is requested or held only for a literal that
\* validated, every fetched text is such a literal, connections are checked
\* out no more often than there are such literals, and a snippet with a
\* rejected literal ends in an error result.
C1_InvalidNeverSent ==
    \A t \in Tasks :
        /\ (IsQuery(t) /\ targs[t].query \in RejectedQueries)
              => /\ tlog[t] = <<>>
                 /\ tpc[t] = "done"
                 /\ DOMAIN tret[t] = {"error"}
                 /\ tret[t].error.kind = "validation"
        /\ IsPython(t)
              => /\ Prefetching(t) => tloc[t].query \in Sendable[targs[t].code]
                 /\ Fetched(t) \subseteq Sendable[targs[t].code]
                 /\ CountOps(t, "acquire") <= Cardinality(Sendable[targs[t].code])
                 /\ (tpc[t] = "done" /\ Rejected[targs[t].code] # {})
                        => /\ DOMAIN tret[t] = {"error"}
                           /\ tret[t].error.kind = "prefetch"

\* a rejected query_database call has returned, and a snippet whose second
\* literal is rejected has returned after fetching its first
C1_Witness ==
    \E t, u \in Tasks :
        /\ IsQuery(t) /\ targs[t].query = qDelete /\ tpc[t] = "done"
        /\ tret[t] = ErrorEnvelope(ErrMsg("validation", KwSELECT, "", FALSE))
        /\ IsPython(u) /\ Rejected[targs[u].code] = {2} /\ tpc[u] = "done"
        /\ Fetched(u) = {qSelect}
        /\ tret[u] = PrefetchError(KwSELECT, "")

\* C10: what execute_query returns is either a success envelope (meta and
\* exactly one of data and rows, no error) or an error envelope (error alone);
\* what run_python returns holds result and output, or error with or without
\* output, never result and error together.
C10_EnvelopeShapes ==
    \A t \in Tasks :
        tpc[t] = "done" =>
            /\ IsQuery(t) =>
                  DOMAIN tret[t] \in {{"error"}, {"data", "meta"}, {"rows", "meta"}}
            /\ IsPython(t) =>
                  DOMAIN tret[t] \in {{"result", "output"}, {"error"}, {"error", "output"}}

\* one call has returned a success envelope and another an error envelope
C10_Witness ==
    \E t, u \in Tasks :
        /\ tpc[t] = "done" /\ tpc[u] = "done"
        /\ IsQuery(t) /\ DOMAIN tret[t] = {"data", "meta"}
        /\ \/ IsQuery(u) /\ DOMAIN tret[u] = {"error"} /\ tret[u].error.kind = "driver"
           \/ IsPython(u) /\ DOMAIN tret[u] = {"error", "output"}

\* C11: no failure of a query_database or run_python invocation leaves the
\* tool function as an exception; each ends in a returned error envelope.
C11_NoEscape ==
    \A t \in Tasks : (IsQuery(t) \/ IsPython(t)) => tpc[t] # "raised"

\* C17: one pool is ever created, and every caller of get_pool holds that one.
C17_SinglePool ==
    /\ npools <= 1
    /\ \A t, u \in Tasks :
          (tloc[t].pool # 0 /\ tloc[u].pool # 0) => tloc[t].pool = tloc[u].pool

\* C18: a request's checkouts and releases alternate: it has released every
\* connection it checked out but at most the one it holds, it holds one
\* exactly between a checkout and its release, and when its call has returned
\* (which is also when a snippet has run) it holds none.
C18_ReleasedOnce ==
    \A t \in Tasks :
        LET held == CountOps(t, "acquire") - CountOps(t, "release")
        IN  /\ held \in {0, 1}
            /\ (held = 1) <=> (tloc[t].conn # 0)
            /\ (held = 1) <=> (tpc[t] \in {"q_set_timeout", "q_set_rls", "q_fetch",
                                           "q_release", "p_set_timeout", "p_fetch",
                                           "p_release", "d_set_rls", "d_fetch",
                                           "d_release"})
            /\ \A i \in 1..Len(tlog[t]) :
                  tlog[t][i].op \in {"execute", "fetch"} =>
                      /\ i > 1 /\ tlog[t][i - 1].op # "release"
                      /\ i < Len(tlog[t]) => tlog[t][i + 1].op # "acquire"

\* one call returned a driver error after its checkout and another ran its
\* snippet after two pre-fetches; both have released what they checked out
C18_Witness ==
    \E t, u \in Tasks :
        /\ IsQuery(t) /\ tpc[t] = "done" /\ "error" \in DOMAIN tret[t]
        /\ CountOps(t, "acquire") = 1 /\ CountOps(t, "release") = 1
        /\ IsPython(u) /\ tpc[u] = "done" /\ "result" \in DOMAIN tret[u]
        /\ CountOps(u, "acquire") >= 2
        /\ CountOps(u, "release") = CountOps(u, "acquire")

\* C12: a snippet that loops forever under its time budget leads to a
\* returned timeout error.
C12_TimeoutReturns ==
    \A t \in Tasks :
        (tpc[t] = "p_exec" /\ targs[t].code.run \in Looping) ~>
            (tpc[t] = "done" /\ "error" \in DOMAIN tret[t]
             /\ tret[t].error.kind = "execution")

\* the snippet of a returned run_python call was executed
SnippetRan(ret) ==
    \/ "result" \in DOMAIN ret
    \/ "error" \in DOMAIN ret /\ ret.error.kind \in {"execution", "import"}

\* the query cache as the snippet of task t finds it, seen from the state
\* before the step that starts the snippet
CacheAtStart(t) ==
    IF tpc[t] = "p_release"
    THEN (tloc[t].query :> tloc[t].results) @@ tloc[t].query_cache
    ELSE tloc[t].query_cache

\* the step of task t in which its snippet starts (and, unless it loops, ends)
StartsSnippet(t) ==
    /\ tpc[t] \notin {"p_exec", "p_spin", "done"}
    /\ targs'[t].tool = "run_python"
    /\ \/ tpc'[t] = "p_exec"
       \/ tpc'[t] = "done" /\ SnippetRan(tret'[t])

\* C13: from the start of the snippet on, the invocation sends nothing to the
\* database; db_query returns the cached rows of a text whose normalised form
\* is in the cache and raises the "not pre-cached" ValueError for any other.
C13_SnippetSendsNoSql ==
    [][\A t \in Tasks :
        /\ StartsSnippet(t) =>
              /\ Fetched(t)' = Fetched(t)
              /\ CountOps(t, "fetch")' = CountOps(t, "fetch")
              /\ CountOps(t, "execute")' = CountOps(t, "execute")
              /\ CountOps(t, "acquire")' = CountOps(t, "acquire")
              /\ targs'[t].code.run = "db_query" =>
                    LET key == Normalize(targs'[t].code.call)
                    IN  IF key \in DOMAIN CacheAtStart(t)
                        THEN /\ "result" \in DOMAIN tret'[t]
                             /\ tret'[t].result = IntCell(Len(CacheAtStart(t)[key]))
                        ELSE /\ "error" \in DOMAIN tret'[t]
                             /\ tret'[t].error =
                                   ErrMsg("execution",
                                          <<"V","a","l","u","e","E","r","r","o","r">>,
                                          "", FALSE)
        /\ tpc[t] \in {"p_exec", "p_spin", "done"} => tlog'[t] = tlog[t]
      ]_allvars

\* one snippet got the cached rows for a text that differs from its literal in
\* whitespace, another was refused a text that is no literal of it
C13_Witness ==
    \E t, u \in Tasks :
        /\ IsPython(t) /\ tpc[t] = "done"
        /\ targs[t].code.run = "db_query" /\ targs[t].code.call = qSelectWs
        /\ Fetched(t) = {qSelect}
        /\ "result" \in DOMAIN tret[t] /\ tret[t].result = IntCell(3)
        /\ IsPython(u) /\ tpc[u] = "done"
        /\ targs[u].code.run = "db_query" /\ targs[u].code.call = qLimit
        /\ tlog[u] = <<>>
        /\ "error" \in DOMAIN tret[u] /\ tret[u].error.kind = "execution"

\* the distinct whitespace-normalised literals of a snippet
DistinctLiterals(code) == {Normalize(code.queries[i]) : i \in 1..Len(code.queries)}

\* C14: the pre-fetches of a run_python call run one after the other and are
\* over before the snippet starts: it starts only after every distinct
\* normalised literal was fetched once, all of them validated and at most 10,
\* with each checkout released.  A pre-fetch that failed, a rejected literal
\* or more than 10 distinct literals end the call in an error envelope without
\* the snippet having run.  No call fetches more than 10 statements, and none
\* fetches the same normalised text twice.
C14_PrefetchThenSnippet ==
    [][\A t \in Tasks :
        /\ StartsSnippet(t) =>
              /\ Fetched(t)' = DistinctLiterals(targs'[t].code)
              /\ Cardinality(DistinctLiterals(targs'[t].code)) <= MAX_QUERIES
              /\ RejectedLiterals(targs'[t].code) = {}
              /\ CountOps(t, "release")' = CountOps(t, "acquire")'
              /\ CountOps(t, "acquire")' = CountOps(t, "fetch")'
        /\ (tpc[t] = "p_release" /\ tloc[t].pending # NoRet) =>
              /\ tpc'[t] = "done"
              /\ tret'[t] = tloc[t].pending
              /\ DOMAIN tret'[t] = {"error"}
        /\ (tpc[t] \in {"p_acquire", "p_set_timeout", "p_fetch"} /\ tpc'[t] = "done") =>
              DOMAIN tret'[t] = {"error"}
        /\ (targs'[t].tool = "run_python" /\ tpc'[t] = "done"
            /\ \/ Cardinality(DistinctLiterals(targs'[t].code)) > MAX_QUERIES
               \/ RejectedLiterals(targs'[t].code) # {})
              => /\ DOMAIN tret'[t] = {"error"}
                 /\ tret'[t].error.kind = "prefetch"
        /\ targs'[t].tool = "run_python" =>
              /\ CountOps(t, "fetch")' <= MAX_QUERIES
              /\ CountOps(t, "fetch")' = Cardinality(Fetched(t)')
      ]_allvars

\* a snippet with 11 distinct literals, two of them written twice, was refused
\* after ten fetches
C14_Witness ==
    /\ IsPython(1) /\ tpc[1] = "done"
    /\ Len(targs[1].code.queries) = MAX_QUERIES + 3
    /\ Cardinality(DistinctLiterals(targs[1].code)) = MAX_QUERIES + 1
    /\ CountOps(1, "fetch") = MAX_QUERIES
    /\ tret[1] = PrefetchError(<<"T","o","o"," ","m","a","n","y">>, "")

\* position i of the log of task t lies in a checkout in which the RLS
\* parameter was set to email before i
RlsSetBefore(t, i, email) ==
    \E j \in 1..(i - 1) :
        /\ tlog[t][j].op = "execute" /\ tlog[t][j].arg = email
        /\ \A k \in j..i : tlog[t][k].op # "acquire"

\* C15: every statement the sandbox pre-fetch sends was validated, and when
\* the caller has an identity the RLS parameter was set to it on that
\* connection before the statement, as for a direct query_database call.
C15_SandboxThroughGateway ==
    \A t \in Tasks :
        (IsPython(t) /\ Truthy(targs[t].email)) =>
            \A i \in 1..Len(tlog[t]) :
                tlog[t][i].op = "fetch" =>
                    /\ tlog[t][i].sql \in Sendable[targs[t].code]
                    /\ RlsSetBefore(t, i, targs[t].email)

\* the session of the connection task t holds
SessionOf(t) == connrls[<<tloc[t].pool, tloc[t].conn>>]

\* task t holds a connection and its next driver call is its query
AboutToFetch(t) == tpc[t] \in {"q_fetch", "p_fetch", "d_fetch"}

\* C16: a request never runs its query with app.user_email in effect from an
\* earlier request on the same connection: whatever is in effect when the
\* query is sent is the request's own identity.
C16_NoRlsLeak ==
    \A t \in Tasks :
        AboutToFetch(t) =>
            (SessionOf(t).rls # None => SessionOf(t).rls = targs[t].email)

\* a request is about to query on a connection on which an earlier request set
\* an identity that is not its own
C16_Witness ==
    \E t \in Tasks :
        /\ AboutToFetch(t)
        /\ SessionOf(t).last \notin {None, targs[t].email}

\* the tools that may reach the database through execute_query only
GatewayOnlyTools ==
    {"get_schema", "describe_table", "search_emails", "search_tasks",
     "get_project_summary", "get_project_dashboard"}

\* C19: every driver call of a schema, search or dashboard tool is made by
\* execute_query, none on a connection the tool took from the pool itself.
C19_ToolsThroughGateway ==
    \A t \in Tasks :
        targs[t].tool \in GatewayOnlyTools =>
            \A i \in 1..Len(tlog[t]) : tlog[t][i].by = "execute_query"

\* the query has a LIMIT clause: the keyword stands in it as a word of its own
HasLimitClause(query) ==
    \E i \in 1..Len(query) : StandaloneAt(Upper(query), i, KwLIMIT)

\* the text each call is expected to send
ExpectedText ==
    [a \in QueryArgs \cup SearchArgs |->
        IF ~HasLimitClause(a.query) /\ a.limit # 0 /\ ~a.full_output
        THEN RStripSemicolons(RStrip(a.query)) \o <<" ">> \o KwLIMIT \o <<" ">>
             \o IntToStr(IF a.limit < LIMIT_CAP THEN a.limit ELSE LIMIT_CAP)
        ELSE a.query]

\* C21: the text execute_query sends is the original text, trailing
\* whitespace and semicolons removed, followed by " LIMIT min(limit, 1000)"
\* when the query has no LIMIT clause, a limit was given and full_output is
\* false, and the original text in every other case.
C21_LimitRewrite ==
    \A t \in Tasks : IsQuery(t) =>
        \A i \in 1..Len(tlog[t]) :
            tlog[t][i].op = "fetch" => tlog[t][i].sql = ExpectedText[targs[t]]

\* the form of a returned value: the code path that built its error and the
\* exception it names, or "none"
FormOf(ret) ==
    IF "error" \in DOMAIN ret THEN <<ret.error.kind, ret.error.text>> ELSE <<"none", <<>>>>

\* the literals of a snippet as the cache holds them
CachedTexts(code) == {Normalize(code.queries[i]) : i \in 1..Len(code.queries)}

\* the form each snippet's way of failing is to be reported in
ExpectedForm(code) ==
    CASE code.run = "raise" -> <<"execution", <<"R","u","n","t","i","m","e","E","r","r","o","r">>>>
      [] code.run = "import" -> <<"import", <<>>>>
      [] code.run \in Overrunning -> <<"timeout", <<>>>>
      [] code.run = "db_query" /\ Normalize(code.call) \notin CachedTexts(code) ->
            <<"execution", <<"V","a","l","u","e","E","r","r","o","r">>>>
      [] OTHER -> <<"none", <<>>>>

\* C22: every returned run_python call reports its failure in the form of its
\* own kind: a pre-fetch fault only for a snippet with embedded queries, and
\* otherwise the timeout fault for a snippet that overran its budget, the
\* execution fault for one that raised, the capability violation for an
\* import, the "not pre-cached" error for an undiscovered query, and no error
\* for a snippet that did none of these.
C22_FailureKinds ==
    \A t \in Tasks :
        (IsPython(t) /\ tpc[t] = "done") =>
            IF FormOf(tret[t])[1] = "prefetch"
            THEN targs[t].code.queries # <<>>
            ELSE FormOf(tret[t]) = ExpectedForm(targs[t].code)

\* sys.stdout and SIGALRM as the process has them when no snippet runs
HostAtRest == sys_stdout = 0 /\ sigalrm = [handler |-> 0, pending |-> FALSE]

\* the step in which run_python returns from the lines that run the snippet
ReturnsFromSnippet(t) ==
    /\ tpc[t] # "done" /\ tpc'[t] = "done"
    /\ targs'[t].tool = "run_python"
    /\ Executed(tret'[t])

\* C23: when run_python returns after having reached the execution of the
\* snippet, the SIGALRM handler and sys.stdout are those installed before the
\* call and no alarm is pending.
C23_HostRestored ==
    [][\A t \in Tasks : ReturnsFromSnippet(t) => HostAtRest']_allvars

\* a call returned after its alarm had gone off, and one after its snippet ran
\* to its end, with the host as it was
C23_Witness ==
    /\ HostAtRest
    /\ \E t \in Tasks : \E u \in Tasks :
        /\ IsPython(t) /\ tpc[t] = "done" /\ targs[t].code.run = "loop"
        /\ FormOf(tret[t])[1] = "execution"
        /\ IsPython(u) /\ tpc[u] = "done" /\ "result" \in DOMAIN tret[u]

\* the snippets that attempt an import
ImportAttempts == {"import", "import_caught"}

\* C24 as stated: every snippet that attempts an import makes run_python return
\* the capability-violation envelope with the output captured so far.
C24_ImportRejected ==
    \A t \in Tasks :
        (IsPython(t) /\ tpc[t] = "done" /\ Executed(tret[t])
         /\ targs[t].code.run \in ImportAttempts) =>
            /\ FormOf(tret[t])[1] = "import"
            /\ tret[t].output = OrNone(Captured(targs[t].code))

\* C24, amended: a snippet whose import statement stands outside any handler
\* of its own makes run_python return the capability-violation envelope with
\* the output captured so far; an import inside the snippet's own bare except
\* binds nothing either and the call returns what the rest of the snippet
\* gives.
C24_UncaughtImportRejected ==
    \A t \in Tasks :
        (IsPython(t) /\ tpc[t] = "done" /\ Executed(tret[t])) =>
            /\ targs[t].code.run = "import" =>
                    /\ FormOf(tret[t])[1] = "import"
                    /\ tret[t].output = OrNone(Captured(targs[t].code))
            /\ targs[t].code.run = "import_caught" =>
                    /\ ~ImportBinds
                    /\ tret[t] = [result |-> Null, output |-> Null]

C24_Witness ==
    \E t \in Tasks :
        /\ IsPython(t) /\ tpc[t] = "done" /\ targs[t].code.run = "import"
        /\ FormOf(tret[t])[1] = "import"
        /\ tret[t].output # Null

\* a request's snippet is executing
Running(t) == tpc[t] \in {"p_exec", "p_spin"}

\* C27: while the snippet of a request runs, sys.stdout is that request's
\* buffer and the SIGALRM handler its own, a pending alarm belongs to a
\* running snippet, no second snippet runs, and no other request takes a step.
C27_OneSnippetAtATime ==
    /\ [](\A u \in Tasks :
            /\ Running(u) =>
                /\ sys_stdout = u /\ sigalrm.handler = u
                /\ \A t \in Tasks \ {u} : ~Running(t)
            /\ (sigalrm.pending /\ sigalrm.handler = u) => tpc[u] = "p_exec")
    /\ [][\A u \in Tasks : Running(u) =>
            \A t \in Tasks \ {u} :
                /\ tpc'[t] = tpc[t] /\ tret'[t] = tret[t] /\ tlog'[t] = tlog[t]
                /\ tloc'[t] = tloc[t] /\ targs'[t] = targs[t]]_allvars

\* a snippet runs while another request is suspended in the middle of its
\* database work
C27_Witness ==
    \E u \in Tasks : \E t \in Tasks \ {u} :
        /\ tpc[u] = "p_exec"
        /\ tpc[t] \in {"q_set_timeout", "q_set_rls", "q_fetch", "p_fetch", "d_fetch"}

\* C29: the output run_python returns is the text one execution of the snippet
\* prints.
C29_OutputOfOneExecution ==
    \A t \in Tasks :
        (IsPython(t) /\ tpc[t] = "done" /\ "result" \in DOMAIN tret[t]) =>
            tret[t].output = OrNone(Captured(targs[t].code))

\* C25: the query of every request that goes through execute_query runs under
\* that request's own identity: the identity execute_query resolves, and the
\* app.user_email in effect on the connection when the query is sent, are the
\* identity of the request (none for a request without one), whatever other
\* requests did to the slot or to the connection.
C25_RunsUnderOwnIdentity ==
    \A t \in Tasks :
        tpc[t] = "q_fetch" =>
            /\ tloc[t].effective_email = targs[t].email
            /\ SessionOf(t).rls = targs[t].email

\* C28: with a non-empty effective identity, execute_query has set the
\* statement deadline and then the RLS parameter on the connection it checked
\* out when it sends the query, and app.user_email of that session is then the
\* effective identity.
C28_RlsInEffectAtFetch ==
    \A t \in Tasks :
        (tpc[t] = "q_fetch" /\ Truthy(tloc[t].effective_email)) =>
            LET n == Len(tlog[t])
            IN  /\ n >= 3
                /\ tlog[t][n - 2].op = "acquire"
                /\ tlog[t][n - 1] =
                     LogEntry("execute_query", "execute", <<>>, "SET statement_timeout = '30s'")
                /\ tlog[t][n] =
                     LogEntry("execute_query", "execute", <<>>, tloc[t].effective_email)
                /\ SessionOf(t).rls = tloc[t].effective_email

(***************************************************************************)
(* to_toon on one row of two string cells that both hold the same value,   *)
(* the value built character by character, and on rows that hold the value *)
(* next to cells of the other kinds                                        *)
(***************************************************************************)
MaxToonLen == 4

\* an ordinary letter, a blank, and the four characters TOON escapes
ToonChars == {"a", " ", ",", "\"", "\n", "\t"}

ToonInit ==
    /\ vq = <<>>
    /\ vres = <<>>
    /\ vpc = "build"
    /\ CIdle /\ SIdle /\ GIdle

\* the value grows by one character
ToonAppend ==
    /\ vpc = "build"
    /\ Len(vq) < MaxToonLen
    /\ \E c \in ToonChars : vq' = Append(vq, c)
    /\ UNCHANGED <<vres, vpc, cvars, svars, gvars>>

ToonSerialize ==
    /\ vpc = "build"
    /\ vres' = to_toon(<< <<Item("a", StrCell(vq)), Item("b", StrCell(vq))>> >>)
    /\ vpc' = "done"
    /\ UNCHANGED <<vq, cvars, svars, gvars>>

\* the first cell of a row: the value as a string, or as a non-string value
\* (a list, a dictionary) with that string form when it holds no control
\* character
ToonFirstCells ==
    {StrCell(vq)} \cup
    (IF HasChar(vq, "\n") \/ HasChar(vq, "\t") THEN {} ELSE {ObjCell(vq)})

\* the second cell of a row: null, a boolean, a number or the string
ToonSecondCells == {Null, BoolCell(TRUE), IntCell(12), StrCell(vq)}

\* to_toon on no row, one row or two rows with the columns a and b
ToonSerializeRows ==
    /\ vpc = "build"
    /\ \E a \in ToonFirstCells : \E b \in ToonSecondCells : \E n \in 0..2 :
          LET rows == [i \in 1..n |-> <<Item("a", a), Item("b", b)>>]
          IN  vres' = [rows |-> rows, doc |-> to_toon(rows)]
    /\ vpc' = "rows"
    /\ UNCHANGED <<vq, cvars, svars, gvars>>

ToonNext == ToonAppend \/ ToonSerialize \/ ToonSerializeRows

SpecToon == ToonInit /\ [][ToonNext]_allvars

\* the marker glyphs mapped back
Unmark(c) ==
    CASE c = ReturnGlyph -> "\n"
      [] c = ArrowGlyph -> "\t"
      [] OTHER -> c

\* The cells of one TOON line read by the documented rules: cells are
\* separated by commas; a cell that starts with a double quote ends at the
\* next double quote that is not doubled, its surrounding quotes are dropped
\* and its doubled quotes undoubled; marker glyphs are mapped back.
RECURSIVE ToonParse(_, _, _, _)
ToonParse(s, cur, mode, cells) ==
    IF s = <<>> THEN Append(cells, cur)
    ELSE
    LET c == Head(s)
        r == Tail(s)
    IN  CASE mode = "start" /\ c = "\"" -> ToonParse(r, <<>>, "quoted", cells)
          [] mode # "quoted" /\ c = "," -> ToonParse(r, <<>>, "start", Append(cells, cur))
          [] mode = "quoted" /\ c = "\"" /\ r # <<>> /\ Head(r) = "\"" ->
                ToonParse(Tail(r), Append(cur, "\""), "quoted", cells)
          [] mode = "quoted" /\ c = "\"" -> ToonParse(r, cur, "closed", cells)
          [] mode = "quoted" -> ToonParse(r, Append(cur, Unmark(c)), "quoted", cells)
          [] OTHER -> ToonParse(r, Append(cur, Unmark(c)), "plain", cells)

\* the text after the header line and the two blanks of indentation
ToonFirstLine(doc) ==
    LET nl == CHOOSE i \in 1..Len(doc) : doc[i] = "\n" /\ \A j \in 1..(i - 1) : doc[j] # "\n"
    IN  SubSeq(doc, nl + 3, Len(doc))

\* C20: a string value of letters, blanks, commas, double quotes, newlines
\* and tabs, serialised by to_toon and read back by the documented rules, is
\* recovered exactly, in each cell of the row.
C20_ToonRoundTrip ==
    vpc = "done" => ToonParse(ToonFirstLine(vres), <<>>, "start", <<>>) = <<vq, vq>>

\* a value holding a comma, a double quote, a newline and a tab was serialised
C20_Witness ==
    /\ vpc = "done"
    /\ \A c \in {",", "\"", "\n", "\t"} : HasChar(vq, c)
    /\ HasChar(vres, ReturnGlyph) /\ HasChar(vres, ArrowGlyph)

\* the lines of a text
RECURSIVE SplitLines(_, _)
SplitLines(s, cur) ==
    IF s = <<>> THEN <<cur>>
    ELSE IF Head(s) = "\n" THEN <<cur>> \o SplitLines(Tail(s), <<>>)
    ELSE SplitLines(Tail(s), Append(cur, Head(s)))

\* C30: for a non-empty row set with the columns a and b, to_toon gives the
\* header "rows[n]{a,b}:" with n the number of rows, followed by exactly n
\* lines, each indented by two blanks and holding exactly two cells when read
\* by the CSV-style quoting rule; for the empty row set it gives the
\* zero-count marker line.
C30_ToonShape ==
    vpc = "rows" =>
        LET n == Len(vres.rows)
            lines == SplitLines(vres.doc, <<>>)
        IN  IF n = 0
            THEN vres.doc = <<"r","o","w","s","[","0","]","{","}",":"," ",
                              "(","e","m","p","t","y",")">>
            ELSE /\ Len(lines) = n + 1
                 /\ lines[1] = <<"r","o","w","s","[">> \o IntToStr(n)
                                \o <<"]","{","a",",","b","}",":">>
                 /\ \A i \in 2..(n + 1) :
                        /\ Len(lines[i]) >= 2
                        /\ SubSeq(lines[i], 1, 2) = <<" ", " ">>
                        /\ Len(ToonParse(SubSeq(lines[i], 3, Len(lines[i])),
                                         <<>>, "start", <<>>)) = 2

====
